---- MODULE Spec2Model ----
(***************************************************************************)
(* Model of the asynchronous action-execution pipeline of transpose:       *)
(* the BullMQ job queues, the transaction / swap / wallet workers, the     *)
(* persisted records they mutate and the transfer / swap tool handlers.    *)
(***************************************************************************)
EXTENDS Integers, Sequences, FiniteSets, TLC

(***************************************************************************)
(* Bounds of the model.                                                    *)
(***************************************************************************)
\* jobs ever added to the queues in one behaviour
MaxJobs == 2
\* server processes running against the same queues and database; each one
\* registers one worker per queue (server.ts bootstrapDependencies)
MaxInstances == 2
\* rows per table (transactions, swaps) present in the database
MaxRecords == 1
\* storage errors (a repository call that throws) in one behaviour
MaxFaults == 3
\* user accounts present in the database
MaxUsers == 1
\* tool handler invocations in one behaviour
MaxCalls == 1
\* saveAlias and deleteAlias calls made on the service in one behaviour
MaxAliasCalls == 3
\* requests and errors that reach the Express stack in one behaviour
MaxHandled == 2
\* signup calls that arrive while others are in flight, in one behaviour
MaxSignups == 3

(***************************************************************************)
(* Program constants.                                                      *)
(***************************************************************************)
\* defaultJobOptions.attempts
Attempts == 3

WalletQueue == "wallet-provisioning"
TransactionQueue == "transaction-processing"
SwapQueue == "swap-processing"

\* the queues whose workers settle a record
SettleQueues == {TransactionQueue, SwapQueue}
Queues == {WalletQueue} \cup SettleQueues

Instances == 1..MaxInstances
RecordIds == 1..MaxRecords

\* job.data.transactionId / swapId: 0 is an absent id, MaxRecords + 1 is a
\* well-formed id that no row has
NoId == 0
JobRecordIds == 0..(MaxRecords + 1)

\* tx_hash placeholder of a record that was never settled
NoHash == 0

\* the literal a worker returns for a confirmed record without a hash
AlreadyConfirmed == -1

NoJob == 0

UserIds == 1..MaxUsers
\* the chains of the enum that the model exercises
Chains == {"Base", "Ethereum"}
\* users.primaryWalletAddress of a user without a provisioned wallet
NoAddress == 0

VARIABLES
  records,      \* records[q][id]: the Transaction / Swap rows as the workers
                \* read and write them, [status, txHash]
  jobs,         \* the jobs of all queues, in the order they were added
  workers,      \* workers[i][q]: the process() call of instance i on queue q
  settled,      \* settled[q][id]: how often the settlement step ran for a row
  faults,       \* storage errors that have happened so far
  wallets,      \* the Wallet rows, in the order they were inserted
  users,        \* users[u]: the primaryWalletAddress column of user u
  provisioned,  \* provisioned[u][c]: provisionOnChain calls made for (u, c)
  aliases,      \* the Alias rows: [ownerId, alias, aliasAddress]
  serviceCalls, \* the payloads handed to transferToken / swapToken, in order
  toolResult,   \* what the last tool handler returned
  calls,        \* tool handler and alias service invocations so far
  aliasOps,     \* calls made on the Alias repository so far
  accounts,     \* the email and password columns of the users that have them
  toolRegistry, \* ToolOrchestrator.toolRegistry: action kind -> handler
  thrown,       \* the error the last mapTool / chat / service call raised,
                \* or "none"
  requests,     \* mapTool calls and chat requests so far
  saving,       \* saving[i]: the saveAlias call in flight in instance i
  signing,      \* signing[i]: the signup call in flight in instance i
  server,       \* the AppServer of the entry point: what has been set up
  handled       \* per request or error that reached Express, what was sent

vars == <<records, jobs, workers, settled, faults, wallets, users, provisioned,
          aliases, serviceCalls, toolResult, calls, aliasOps, accounts,
          toolRegistry, thrown, requests, saving, signing, server, handled>>

\* what only the entry point and the Express stack touch
httpVars == <<server, handled>>

toolVars == <<aliases, serviceCalls, toolResult, calls, aliasOps, accounts,
              toolRegistry, thrown, requests, saving, signing, httpVars>>
\* what the settlement workers never touch
nonSettleVars == <<wallets, users, provisioned, toolVars>>
\* what the wallet worker never touches
nonWalletVars == <<records, settled, toolVars>>
\* what the transfer, swap and alias handlers never touch
nonToolVars == <<records, jobs, workers, settled, wallets, users, provisioned,
                 accounts, toolRegistry, saving, signing, httpVars>>

(***************************************************************************)
(* Strings are sequences of one-character strings.                         *)
(***************************************************************************)
Digits == <<"0", "1", "2", "3", "4", "5", "6", "7", "8", "9">>
UpperChars == <<"A", "B", "C", "D", "E", "F", "G", "H", "I", "J", "K", "L", "M",
                "N", "O", "P", "Q", "R", "S", "T", "U", "V", "W", "X", "Y", "Z">>
LowerChars == <<"a", "b", "c", "d", "e", "f", "g", "h", "i", "j", "k", "l", "m",
                "n", "o", "p", "q", "r", "s", "t", "u", "v", "w", "x", "y", "z">>

IsDigit(c) == \E k \in DOMAIN Digits : Digits[k] = c
DigitValue(c) == (CHOOSE k \in DOMAIN Digits : Digits[k] = c) - 1

\* String.prototype.toLowerCase
LowerChar(c) ==
  IF \E k \in DOMAIN UpperChars : UpperChars[k] = c
  THEN LowerChars[CHOOSE k \in DOMAIN UpperChars : UpperChars[k] = c]
  ELSE c
ToLowerCase(str) == [k \in DOMAIN str |-> LowerChar(str[k])]

\* String.prototype.startsWith for a one-character prefix
StartsWith(str, c) == Len(str) > 0 /\ str[1] = c

RECURSIVE TrimStart(_)
TrimStart(str) ==
  IF Len(str) > 0 /\ str[1] = " " THEN TrimStart(Tail(str)) ELSE str

RECURSIVE TrimEnd(_)
TrimEnd(str) ==
  IF Len(str) > 0 /\ str[Len(str)] = " "
  THEN TrimEnd(SubSeq(str, 1, Len(str) - 1)) ELSE str

\* String.prototype.trim
Trim(str) == TrimEnd(TrimStart(str))

\* length of the longest prefix of digits
RECURSIVE DigitPrefixLen(_)
DigitPrefixLen(str) ==
  IF Len(str) > 0 /\ IsDigit(str[1]) THEN 1 + DigitPrefixLen(Tail(str)) ELSE 0

\* the number written by a sequence of digits
RECURSIVE DigitsValue(_)
DigitsValue(ds) ==
  IF ds = <<>> THEN 0
  ELSE 10 * DigitsValue(SubSeq(ds, 1, Len(ds) - 1)) + DigitValue(ds[Len(ds)])

NaN == [nan |-> TRUE, negative |-> FALSE, mantissa |-> 0, scale |-> 0]

\* parseFloat: leading white space is skipped and the longest prefix that is
\* a decimal literal (sign, digits, '.', digits) is converted; what follows
\* it is ignored.  The value is mantissa / 10^scale, negated when negative.
ParseFloat(str) ==
  LET s0 == TrimStart(str)
      signed == Len(s0) > 0 /\ s0[1] \in {"+", "-"}
      s1 == IF signed THEN Tail(s0) ELSE s0
      n1 == DigitPrefixLen(s1)
      rest == SubSeq(s1, n1 + 1, Len(s1))
      hasDot == Len(rest) > 0 /\ rest[1] = "."
      n2 == IF hasDot THEN DigitPrefixLen(Tail(rest)) ELSE 0
      ds == SubSeq(s1, 1, n1) \o (IF hasDot THEN SubSeq(rest, 2, n2 + 1) ELSE <<>>)
  IN IF n1 + n2 = 0
     THEN NaN
     ELSE [nan |-> FALSE, negative |-> (signed /\ s0[1] = "-"),
           mantissa |-> DigitsValue(ds), scale |-> n2]

\* isNaN(amount) || amount <= 0
NotPositive(x) == x.nan \/ x.negative \/ x.mantissa = 0

IdleWorker == [pc |-> "idle", job |-> NoJob, hash |-> NoHash, error |-> "none"]

NoResult == [success |-> FALSE, status |-> "none", txHash |-> NoHash, error |-> "none"]

\* mockTxHash: a fresh random hex string, one per settlement of a job attempt
MockTxHash(j) == (j - 1) * Attempts + jobs[j].attemptsMade + 1

\* transactionProcessorJobSchema / swapProcessorJobSchema .parse(job.data)
SchemaParse(data) == data.valid

\* amountIn / amountOutExpected of a job: decimal strings, z.string() in
\* the job schema
GoodAmounts == [amountIn |-> <<"5">>, amountOutExpected |-> <<"5">>]

JobAmounts ==
  { GoodAmounts,
    [amountIn |-> <<"0">>, amountOutExpected |-> <<"5">>],
    [amountIn |-> <<"5">>, amountOutExpected |-> <<"5", "a", "b", "c">>] }

\* the amount check of SwapWorker.process, for each pair of amounts:
\* isNaN(amountInNum) || amountInNum <= 0 || isNaN(amountOutNum) ||
\* amountOutNum <= 0, with parseFloat of the strings
InvalidSwapAmounts ==
  [a \in JobAmounts |-> \/ NotPositive(ParseFloat(a.amountIn))
                        \/ NotPositive(ParseFloat(a.amountOutExpected))] @@ << >>

\* the payloads a producer can put on a settlement queue
SettleJobData ==
  { d \in [rec : JobRecordIds, valid : BOOLEAN, amounts : JobAmounts] :
      /\ (d.rec = NoId => ~d.valid)
      /\ (d.rec \notin RecordIds \cup {NoId} => d.valid)
      /\ (~d.valid => d.amounts = GoodAmounts) }

\* the { success, message, data } object of a tool handler
NoData == [to |-> <<>>, amount |-> <<>>, asset |-> <<>>, chain |-> <<>>,
           fromAsset |-> <<>>, toAsset |-> <<>>, protocol |-> <<>>]

NoToolResult == [tool |-> "none", success |-> FALSE, message |-> "none", data |-> NoData]

NewJob(q, d) ==
  [queue |-> q, data |-> d, state |-> "waiting", attemptsMade |-> 0,
   returnvalue |-> NoResult]

\* no saveAlias call in flight
IdleSave == [pc |-> "idle"]

\* new AppServer(): the body parsers and the request logger are installed,
\* nothing else is set
NewAppServer ==
  [pc |-> "new", logger |-> FALSE, config |-> FALSE, db |-> "none", workers |-> {},
   routes |-> {}, errorHandler |-> FALSE, listening |-> FALSE]

\* no signup call in flight
IdleSignup == [pc |-> "idle"]

\* the null that findOne resolves to when no row matches
NoAlias == [id |-> 0]

\* the action kinds and the handler each one is registered with in the
\* constructor of ToolOrchestrator
Actions ==
  <<"signup", "signin", "create_alias", "resolve_alias", "transfer", "swap",
    "balance_check", "portfolio">>

Handlers ==
  <<"signupTool", "signinTool", "createAliasTool", "resolveAliasTool",
    "transferTool", "swapTool", "balanceCheckTool", "portfolioTool">>

ToolRegistry ==
  [a \in {Actions[k] : k \in DOMAIN Actions} |->
     Handlers[CHOOSE k \in DOMAIN Actions : Actions[k] = a]]

(***************************************************************************)
(* Initial state: the rows exist with the column default status 'pending'. *)
(***************************************************************************)
\* everything but the user and the wallet table
InitBase ==
  /\ records = [q \in SettleQueues |->
                  [r \in RecordIds |-> [status |-> "pending", txHash |-> NoHash]]]
  /\ jobs = <<>>
  /\ workers = [i \in Instances |-> [q \in Queues |-> IdleWorker]]
  /\ settled = [q \in SettleQueues |-> [r \in RecordIds |-> 0]]
  /\ faults = 0
  /\ provisioned = [u \in UserIds |-> [c \in Chains |-> 0]]
  /\ serviceCalls = <<>>
  /\ toolResult = NoToolResult
  /\ calls = 0
  /\ aliasOps = 0
  /\ toolRegistry = ToolRegistry
  /\ thrown = "none"
  /\ requests = 0
  /\ saving = [i \in Instances |-> IdleSave]
  /\ signing = [i \in Instances |-> IdleSignup]
  /\ server = NewAppServer
  /\ handled = <<>>

InitQueues ==
  /\ InitBase
  /\ wallets = <<>>

InitPipeline ==
  /\ InitQueues
  /\ users = [u \in UserIds |-> NoAddress]

Init ==
  /\ InitPipeline
  /\ aliases = {}
  /\ accounts = {}

(***************************************************************************)
(* Queue.add on the transaction / swap queue.                              *)
(***************************************************************************)
AddSettleJob(q, d) ==
  /\ Len(jobs) < MaxJobs
  /\ q \in SettleQueues
  /\ q = SwapQueue \/ d.amounts = GoodAmounts
  /\ jobs' = Append(jobs, NewJob(q, d))
  /\ UNCHANGED <<records, workers, settled, faults, nonSettleVars>>

(***************************************************************************)
(* BullMQ Worker: what the queue does with the outcome of the processor.   *)
(***************************************************************************)
\* the processor returned a value: the job is moved to completed
MoveToCompleted(j, result) ==
  [jobs EXCEPT ![j].state = "completed", ![j].returnvalue = result]

\* MoveToFailed without the ceiling on the attempts
MoveToFailedNoCeiling(j) ==
  [jobs EXCEPT ![j].attemptsMade = @ + 1, ![j].state = "delayed"]

\* the processor threw: retry after backoff until the attempts are used up
MoveToFailed(j) ==
  [jobs EXCEPT ![j].attemptsMade = @ + 1,
               ![j].state = IF jobs[j].attemptsMade + 1 < Attempts
                            THEN "delayed" ELSE "failed"]

\* the backoff delay of a delayed job has elapsed
PromoteDelayed(j) ==
  /\ j \in DOMAIN jobs
  /\ jobs[j].state = "delayed"
  /\ jobs' = [jobs EXCEPT ![j].state = "waiting"]
  /\ UNCHANGED <<records, workers, settled, faults, nonSettleVars>>

(***************************************************************************)
(* TransactionWorker.process / SwapWorker.process                          *)
(***************************************************************************)
\* ProcessStart taking a job from any of the settlement queues
ProcessStartAnyQueue(i, q, j) ==
  /\ q \in SettleQueues
  /\ workers[i][q].pc = "idle"
  /\ j \in DOMAIN jobs
  /\ jobs[j].queue \in SettleQueues
  /\ jobs[j].state = "waiting"
  /\ jobs' = [jobs EXCEPT ![j].state = "active"]
  /\ workers' = [workers EXCEPT ![i][q] = [IdleWorker EXCEPT !.pc = "findOne", !.job = j]]
  /\ UNCHANGED <<records, settled, faults, nonSettleVars>>

\* ProcessStart by a worker that takes jobs while it is still processing one
ProcessStartGreedy(i, q, j) ==
  /\ q \in SettleQueues
  /\ j \in DOMAIN jobs
  /\ jobs[j].queue = q
  /\ jobs[j].state = "waiting"
  /\ jobs' = [jobs EXCEPT ![j].state = "active"]
  /\ workers' = [workers EXCEPT ![i][q] =
       IF SchemaParse(jobs[j].data)
       THEN [IdleWorker EXCEPT !.pc = "findOne", !.job = j]
       ELSE [IdleWorker EXCEPT !.pc = "catch", !.job = j, !.error = "invalid job data"]]
  /\ UNCHANGED <<records, settled, faults, nonSettleVars>>

\* the worker takes a waiting job and process() runs up to its first await
ProcessStart(i, q, j) ==
  /\ q \in SettleQueues
  /\ workers[i][q].pc = "idle"
  /\ j \in DOMAIN jobs
  /\ jobs[j].queue = q
  /\ jobs[j].state = "waiting"
  /\ jobs' = [jobs EXCEPT ![j].state = "active"]
  /\ workers' = [workers EXCEPT ![i][q] =
       IF SchemaParse(jobs[j].data)
       THEN [IdleWorker EXCEPT !.pc = "findOne", !.job = j]
       ELSE [IdleWorker EXCEPT !.pc = "catch", !.job = j, !.error = "invalid job data"]]
  /\ UNCHANGED <<records, settled, faults, nonSettleVars>>

\* Step 1: findOne resolves; the status checks (and the swap amount check)
\* run without a further await
\* FindOne without the confirmed / failed status checks
FindOneUnchecked(i, q) ==
  LET w == workers[i][q]
      j == w.job
      id == jobs[j].data.rec
  IN
  /\ q \in SettleQueues
  /\ w.pc = "findOne"
  /\ workers' = [workers EXCEPT ![i][q].pc =
                   IF id \in DOMAIN records[q] THEN "settle" ELSE "catch"]
  /\ UNCHANGED <<records, jobs, settled, faults, nonSettleVars>>

FindOne(i, q) ==
  LET w == workers[i][q]
      j == w.job
      id == jobs[j].data.rec
  IN
  /\ q \in SettleQueues
  /\ w.pc = "findOne"
  /\ IF id \notin DOMAIN records[q]
     THEN /\ workers' = [workers EXCEPT ![i][q].pc = "catch", ![i][q].error = "not found"]
          /\ UNCHANGED jobs
     ELSE IF records[q][id].status = "confirmed"
     THEN /\ jobs' = MoveToCompleted(j,
                 [success |-> TRUE, status |-> "confirmed",
                  txHash |-> IF records[q][id].txHash = NoHash
                             THEN AlreadyConfirmed
                             ELSE records[q][id].txHash,
                  error |-> "none"])
          /\ workers' = [workers EXCEPT ![i][q] = IdleWorker]
     ELSE IF records[q][id].status = "failed"
     THEN /\ workers' = [workers EXCEPT ![i][q].pc = "catch",
                                        ![i][q].error = "already marked as failed"]
          /\ UNCHANGED jobs
     ELSE IF q = SwapQueue /\ InvalidSwapAmounts[jobs[j].data.amounts]
     THEN /\ workers' = [workers EXCEPT ![i][q].pc = "catch",
                                        ![i][q].error = "Invalid swap amounts"]
          /\ UNCHANGED jobs
     ELSE /\ workers' = [workers EXCEPT ![i][q].pc = "settle"]
          /\ UNCHANGED jobs
  /\ UNCHANGED <<records, settled, faults, nonSettleVars>>

\* Step 2: the on-chain operation (placeholder: a mock hash and a delay);
\* an external operation either yields a reference or throws
Settle(i, q, ok) ==
  LET w == workers[i][q]
      id == jobs[w.job].data.rec
  IN
  /\ q \in SettleQueues
  /\ w.pc = "settle"
  /\ settled' = [settled EXCEPT ![q][id] = @ + 1]
  /\ workers' = [workers EXCEPT ![i][q] =
       IF ok THEN [w EXCEPT !.pc = "save", !.hash = MockTxHash(w.job)]
             ELSE [w EXCEPT !.pc = "catch", !.error = "settlement failed"]]
  /\ UNCHANGED <<records, jobs, faults, nonSettleVars>>

\* Step 3: repository.save(record) with status and txHash set, then return;
\* a storage error lands in the catch block
Save(i, q, ok) ==
  LET w == workers[i][q]
      id == jobs[w.job].data.rec
  IN
  /\ q \in SettleQueues
  /\ w.pc = "save"
  /\ ok \/ faults < MaxFaults
  /\ faults' = IF ok THEN faults ELSE faults + 1
  /\ IF ok
     THEN /\ records' = [records EXCEPT ![q][id] =
                           [status |-> "confirmed", txHash |-> w.hash]]
          /\ jobs' = MoveToCompleted(w.job,
                 [success |-> TRUE, status |-> "confirmed",
                  txHash |-> w.hash, error |-> "none"])
          /\ workers' = [workers EXCEPT ![i][q] = IdleWorker]
     ELSE /\ workers' = [workers EXCEPT ![i][q].pc = "catch",
                                        ![i][q].error = "storage error"]
          /\ UNCHANGED <<records, jobs>>
  /\ UNCHANGED <<settled, nonSettleVars>>

\* repository.update(id, { status: "failed" }) of the catch block
UpdateFailed(q, id) ==
  IF id # NoId /\ id \in DOMAIN records[q]
  THEN [records EXCEPT ![q][id].status = "failed"]
  ELSE records

\* Catch returning the failure result without the update of the record
CatchSilent(i, q, ok) ==
  /\ q \in SettleQueues
  /\ workers[i][q].pc = "catch"
  /\ ok
  /\ jobs' = MoveToCompleted(workers[i][q].job,
         [success |-> FALSE, status |-> "failed", txHash |-> NoHash,
          error |-> workers[i][q].error])
  /\ workers' = [workers EXCEPT ![i][q] = IdleWorker]
  /\ UNCHANGED <<records, faults, settled, nonSettleVars>>

\* catch block: mark the record failed and return a failure result; when the
\* update itself throws, process() throws
Catch(i, q, ok) ==
  LET w == workers[i][q]
      id == jobs[w.job].data.rec
  IN
  /\ q \in SettleQueues
  /\ w.pc = "catch"
  /\ ok \/ (id # NoId /\ faults < MaxFaults)
  /\ faults' = IF ok THEN faults ELSE faults + 1
  /\ IF ok
     THEN /\ records' = UpdateFailed(q, id)
          /\ jobs' = MoveToCompleted(w.job,
                 [success |-> FALSE, status |-> "failed",
                  txHash |-> NoHash, error |-> w.error])
     ELSE /\ jobs' = MoveToFailed(w.job)
          /\ UNCHANGED records
  /\ workers' = [workers EXCEPT ![i][q] = IdleWorker]
  /\ UNCHANGED <<settled, nonSettleVars>>

(***************************************************************************)
(* The settlement pipeline: transaction and swap queues and their workers. *)
(***************************************************************************)
NextSettle ==
  \/ \E q \in SettleQueues, d \in SettleJobData : AddSettleJob(q, d)
  \/ \E j \in 1..MaxJobs : PromoteDelayed(j)
  \/ \E i \in Instances, q \in SettleQueues, j \in 1..MaxJobs : ProcessStart(i, q, j)
  \/ \E i \in Instances, q \in SettleQueues : FindOne(i, q)
  \/ \E i \in Instances, q \in SettleQueues, ok \in BOOLEAN : Settle(i, q, ok)
  \/ \E i \in Instances, q \in SettleQueues, ok \in BOOLEAN : Save(i, q, ok)
  \/ \E i \in Instances, q \in SettleQueues, ok \in BOOLEAN : Catch(i, q, ok)

SpecSettle == Init /\ [][NextSettle]_vars

\* the same pipeline with workers that are scheduled fairly: each worker
\* takes its next step (an idle worker fetches a waiting job of its queue,
\* an await of process() resolves or rejects), and the backoff delay of a
\* delayed job elapses
SpecSettleFair ==
  /\ SpecSettle
  /\ \A j \in 1..MaxJobs : WF_vars(PromoteDelayed(j))
  /\ \A i \in Instances, q \in SettleQueues :
       WF_vars(\/ \E j \in 1..MaxJobs : ProcessStart(i, q, j)
               \/ FindOne(i, q)
               \/ \E ok \in BOOLEAN : Settle(i, q, ok)
               \/ \E ok \in BOOLEAN : Save(i, q, ok)
               \/ \E ok \in BOOLEAN : Catch(i, q, ok))

(***************************************************************************)
(* WalletWorker.process and the WalletService calls it makes.              *)
(***************************************************************************)
NoWalletResult ==
  [success |-> FALSE, walletId |-> 0, address |-> NoAddress, txHash |-> "none",
   error |-> "none"]

\* walletProvisionJobSchema: the payloads a producer can put on the queue
WalletJobData == [userId : UserIds, chain : Chains, valid : BOOLEAN]

\* walletQueue.add("provisionWallet", { userId, chain })
AddWalletJob(d) ==
  /\ Len(jobs) < MaxJobs
  /\ jobs' = Append(jobs, [NewJob(WalletQueue, d) EXCEPT !.returnvalue = NoWalletResult])
  /\ UNCHANGED <<workers, faults, wallets, users, provisioned, nonWalletVars>>

\* provisionOnChain: mockAddress, a fresh random address per call
MockAddress(j) == (j - 1) * Attempts + jobs[j].attemptsMade + 1

\* findPrimaryWallet: the ids of the rows matching owner, chain and isPrimary
PrimaryWallets(u, c) ==
  { k \in DOMAIN wallets :
      wallets[k].owner = u /\ wallets[k].chain = c /\ wallets[k].isPrimary }

\* the catch block of process(): a failure result is returned
WalletFailure(j, msg) ==
  MoveToCompleted(j, [NoWalletResult EXCEPT !.error = msg])

\* the worker takes a waiting job; a payload that fails the schema is
\* answered from the catch block at once
WalletProcessStart(i, j) ==
  /\ workers[i][WalletQueue].pc = "idle"
  /\ j \in DOMAIN jobs
  /\ jobs[j].queue = WalletQueue
  /\ jobs[j].state = "waiting"
  /\ IF SchemaParse(jobs[j].data)
     THEN /\ jobs' = [jobs EXCEPT ![j].state = "active"]
          /\ workers' = [workers EXCEPT ![i][WalletQueue] =
                           [IdleWorker EXCEPT !.pc = "findPrimaryWallet", !.job = j]]
     ELSE /\ jobs' = WalletFailure(j, "invalid job data")
          /\ UNCHANGED workers
  /\ UNCHANGED <<faults, wallets, users, provisioned, nonWalletVars>>

\* FindPrimaryWallet without the early return for an existing primary wallet
FindPrimaryWalletUnchecked(i) ==
  /\ workers[i][WalletQueue].pc = "findPrimaryWallet"
  /\ workers' = [workers EXCEPT ![i][WalletQueue].pc = "provisionOnChain"]
  /\ UNCHANGED <<jobs, faults, wallets, users, provisioned, nonWalletVars>>

\* findPrimaryWallet resolves: an existing primary wallet ends the job
FindPrimaryWallet(i) ==
  LET w == workers[i][WalletQueue]
      d == jobs[w.job].data
  IN
  /\ w.pc = "findPrimaryWallet"
  /\ IF PrimaryWallets(d.userId, d.chain) # {}
     THEN \E k \in PrimaryWallets(d.userId, d.chain) :
            /\ jobs' = MoveToCompleted(w.job,
                 [success |-> TRUE, walletId |-> k,
                  address |-> wallets[k].smartAccountAddress,
                  txHash |-> "already_exists", error |-> "none"])
            /\ workers' = [workers EXCEPT ![i][WalletQueue] = IdleWorker]
     ELSE /\ workers' = [workers EXCEPT ![i][WalletQueue].pc = "provisionOnChain"]
          /\ UNCHANGED jobs
  /\ UNCHANGED <<faults, wallets, users, provisioned, nonWalletVars>>

\* Step 1: provisionOnChain, an external deployment that yields an address
\* or throws
ProvisionOnChain(i, ok) ==
  LET w == workers[i][WalletQueue]
      d == jobs[w.job].data
  IN
  /\ w.pc = "provisionOnChain"
  /\ provisioned' = [provisioned EXCEPT ![d.userId][d.chain] = @ + 1]
  /\ IF ok
     THEN /\ workers' = [workers EXCEPT ![i][WalletQueue].pc = "createWallet",
                                        ![i][WalletQueue].hash = MockAddress(w.job)]
          /\ UNCHANGED jobs
     ELSE /\ jobs' = WalletFailure(w.job, "provisioning failed")
          /\ workers' = [workers EXCEPT ![i][WalletQueue] = IdleWorker]
  /\ UNCHANGED <<faults, wallets, users, nonWalletVars>>

\* Step 2: createWallet saves a new row with isPrimary = true
CreateWallet(i, ok) ==
  LET w == workers[i][WalletQueue]
      d == jobs[w.job].data
  IN
  /\ w.pc = "createWallet"
  /\ ok \/ faults < MaxFaults
  /\ faults' = IF ok THEN faults ELSE faults + 1
  /\ IF ok
     THEN /\ wallets' = Append(wallets,
                 [owner |-> d.userId, chain |-> d.chain,
                  smartAccountAddress |-> w.hash, isPrimary |-> TRUE])
          /\ workers' = [workers EXCEPT ![i][WalletQueue].pc = "updateUser"]
          /\ UNCHANGED jobs
     ELSE /\ jobs' = WalletFailure(w.job, "storage error")
          /\ workers' = [workers EXCEPT ![i][WalletQueue] = IdleWorker]
          /\ UNCHANGED wallets
  /\ UNCHANGED <<users, provisioned, nonWalletVars>>

\* the id of the row that createWallet inserted for this worker
CreatedWallet(i) ==
  CHOOSE k \in DOMAIN wallets :
    wallets[k].smartAccountAddress = workers[i][WalletQueue].hash

\* Step 3: the user's primaryWalletAddress is updated and the result returned
UpdateUser(i, ok) ==
  LET w == workers[i][WalletQueue]
      d == jobs[w.job].data
  IN
  /\ w.pc = "updateUser"
  /\ ok \/ faults < MaxFaults
  /\ faults' = IF ok THEN faults ELSE faults + 1
  /\ IF ok
     THEN /\ users' = [users EXCEPT ![d.userId] = w.hash]
          /\ jobs' = MoveToCompleted(w.job,
                 [success |-> TRUE, walletId |-> CreatedWallet(i),
                  address |-> w.hash, txHash |-> "provisioned", error |-> "none"])
     ELSE /\ jobs' = WalletFailure(w.job, "storage error")
          /\ UNCHANGED users
  /\ workers' = [workers EXCEPT ![i][WalletQueue] = IdleWorker]
  /\ UNCHANGED <<wallets, provisioned, nonWalletVars>>

NextWallet ==
  \/ \E d \in WalletJobData : AddWalletJob(d)
  \/ \E i \in Instances, j \in 1..MaxJobs : WalletProcessStart(i, j)
  \/ \E i \in Instances : FindPrimaryWallet(i)
  \/ \E i \in Instances, ok \in BOOLEAN : ProvisionOnChain(i, ok)
  \/ \E i \in Instances, ok \in BOOLEAN : CreateWallet(i, ok)
  \/ \E i \in Instances, ok \in BOOLEAN : UpdateUser(i, ok)

SpecWallet == Init /\ [][NextWallet]_vars

(***************************************************************************)
(* WalletService.setPrimaryWallet called on a wallet table with rows of    *)
(* several users and chains.                                               *)
(***************************************************************************)
\* no repository call of the handler or service throws
NoError == "none"

\* the owners of the rows: the users of the table and one more
WalletOwners == 1..(MaxUsers + 1)

\* wallet tables of up to three rows in which every (user, chain) has at
\* most one primary wallet
WalletTables ==
  LET Rows(n) == [1..n -> [owner : WalletOwners, chain : Chains, isPrimary : BOOLEAN]]
  IN { [k \in DOMAIN t |->
          [owner |-> t[k].owner, chain |-> t[k].chain, smartAccountAddress |-> k,
           isPrimary |-> t[k].isPrimary]] :
       t \in { r \in UNION { Rows(n) : n \in 0..3 } :
                 \A k, l \in DOMAIN r :
                   (/\ r[k].isPrimary /\ r[l].isPrimary
                    /\ r[k].owner = r[l].owner /\ r[k].chain = r[l].chain) => k = l } }

InitWalletService ==
  /\ InitBase
  /\ users = [u \in WalletOwners |-> NoAddress]
  /\ wallets \in WalletTables
  /\ aliases = {}
  /\ accounts = {}

\* setPrimaryWallet(walletId, userId): update({ owner: userId }, { isPrimary:
\* false }), then update(walletId, { isPrimary: true }); err names the update
\* that throws
SetPrimaryWallet(walletId, userId, err) ==
  LET unset == [k \in DOMAIN wallets |->
                  IF wallets[k].owner = userId
                  THEN [wallets[k] EXCEPT !.isPrimary = FALSE] ELSE wallets[k]]
  IN
  /\ calls < MaxCalls
  /\ calls' = calls + 1
  /\ err \in {NoError, "unset", "set"}
  /\ err = NoError \/ faults < MaxFaults
  /\ faults' = IF err = NoError THEN faults ELSE faults + 1
  /\ thrown' = IF err = NoError THEN "none" ELSE "storage error"
  /\ wallets' = IF err = "unset" THEN wallets
                ELSE IF err = "set" \/ walletId \notin DOMAIN wallets THEN unset
                ELSE [unset EXCEPT ![walletId].isPrimary = TRUE]
  /\ UNCHANGED <<records, jobs, workers, settled, users, provisioned, aliases,
                 serviceCalls, toolResult, aliasOps, accounts, toolRegistry, requests,
                 saving, signing, httpVars>>

SpecWalletService ==
  InitWalletService
  /\ [][\E walletId \in 1..4, userId \in WalletOwners, err \in {NoError, "unset", "set"} :
          SetPrimaryWallet(walletId, userId, err)]_vars

(***************************************************************************)
(* All three queues with their workers, and the queue metrics.             *)
(***************************************************************************)
NextQueues == NextSettle \/ NextWallet

SpecQueues == Init /\ [][NextQueues]_vars

NotificationQueue == "notifications"

\* getQueue: the queue behind each of the four names
QueueMap ==
  [name \in {"wallet", "transaction", "swap", "notification"} |->
     CASE name = "wallet" -> WalletQueue
       [] name = "transaction" -> TransactionQueue
       [] name = "swap" -> SwapQueue
       [] name = "notification" -> NotificationQueue]

\* names that the lookup on the queueMap object finds on Object.prototype: the
\* value found is truthy and is not a Queue
QueueMapPrototypeKeys == {"constructor", "toString"}

\* queue names that getQueue has no entry for
UnknownQueueNames == {"email", ""} \cup QueueMapPrototypeKeys

\* getQueue(name): the queue, or the error that it or the first call on the
\* value it returned throws
GetQueue(name) ==
  IF name \in DOMAIN QueueMap THEN [queue |-> QueueMap[name], error |-> "none"]
  ELSE IF name \in QueueMapPrototypeKeys
  THEN [queue |-> "none", error |-> "queue.getWaitingCount is not a function"]
  ELSE [queue |-> "none", error |-> "Queue not found"]

\* Queue.getWaitingCount and its siblings
JobCount(queue, state) ==
  Cardinality({ j \in DOMAIN jobs : jobs[j].queue = queue /\ jobs[j].state = state })

\* GetQueueMetrics reporting every finished job as completed
GetQueueMetricsFinished(queueName) ==
  LET found == GetQueue(queueName) IN
  IF found.error # "none" THEN [error |-> found.error]
  ELSE [waiting |-> JobCount(found.queue, "waiting"),
        active |-> JobCount(found.queue, "active"),
        completed |-> JobCount(found.queue, "completed")
                        + JobCount(found.queue, "failed"),
        failed |-> 0,
        delayed |-> JobCount(found.queue, "delayed")]

\* getQueueMetrics(queueName): the five counts; for a name without a queue
\* the error is the result
GetQueueMetrics(queueName) ==
  LET found == GetQueue(queueName) IN
  IF found.error # "none" THEN [error |-> found.error]
  ELSE [waiting |-> JobCount(found.queue, "waiting"),
        active |-> JobCount(found.queue, "active"),
        completed |-> JobCount(found.queue, "completed"),
        failed |-> JobCount(found.queue, "failed"),
        delayed |-> JobCount(found.queue, "delayed")]

(***************************************************************************)
(* The inputs of the transfer and swap tools.                              *)
(***************************************************************************)
\* an absent actor id
NoUser == 0

\* two well-formed addresses: 0x and 40 hexadecimal digits
Address1 == <<"0", "x">> \o [k \in 1..40 |-> "a"]
Address2 == <<"0", "x">> \o [k \in 1..40 |-> "B"]

ToInputs ==
  { <<>>, <<" ">>, Address1,
    <<"@", "b", "o", "b">>, <<"@", "B", "o", "b">>, <<"@", "e", "v", "e">> }

AmountInputs ==
  { <<"5">>, <<"0">>, <<"-", "1">>, <<>>, <<"a", "b", "c">>,
    <<"5", "a", "b", "c">>, <<"0", ".", "5">>, <<" ", "1", "0">> }

AssetInputs == { <<"E", "T", "H">>, <<"U", "S", "D", "C">>, <<" ">> }

TransferInputs ==
  [to : ToInputs, amount : AmountInputs, asset : {<<"E", "T", "H">>}, chain : {"Base"}]

SwapInputs ==
  [fromAsset : AssetInputs, toAsset : AssetInputs, amount : AmountInputs,
   protocol : {<<>>}, chain : {"Base"}]

\* the labels of the rows present at the start
StoredLabels == << <<"b", "o", "b">>, <<"@", "b", "o", "b">> >>

\* the Alias rows that saveAlias can have stored; the generated id of a row
\* is unique in the table
AliasRows ==
  { [id |-> Len(StoredLabels) * (u - 1) + k, ownerId |-> u, alias |-> StoredLabels[k],
     aliasAddress |-> a] :
      u \in UserIds, k \in DOMAIN StoredLabels, a \in {Address1, Address2} }

AliasTables ==
  { t \in SUBSET AliasRows :
      \A a, b \in t : (a.ownerId = b.ownerId /\ a.alias = b.alias) => a = b }

InitTools ==
  /\ InitPipeline
  /\ aliases \in AliasTables
  /\ accounts = {}

(***************************************************************************)
(* AliasService.resolveAlias                                               *)
(***************************************************************************)
CleanAlias(alias) ==
  IF StartsWith(alias, "@") THEN ToLowerCase(Tail(alias)) ELSE ToLowerCase(alias)

\* ResolveAlias looking the label up in the rows of all owners
ResolveAliasAnyOwner(userId, alias) ==
  { a.aliasAddress : a \in { b \in aliases : b.alias = CleanAlias(alias) } }

\* the addresses of the rows that findOne can return; empty when it finds none
ResolveAlias(userId, alias) ==
  { a.aliasAddress : a \in { b \in aliases :
                               b.ownerId = userId /\ b.alias = CleanAlias(alias) } }

(***************************************************************************)
(* MCPTools.transferTool / MCPTools.swapTool                               *)
(***************************************************************************)
ToolFailure(tool, msg) ==
  /\ toolResult' = [tool |-> tool, success |-> FALSE, message |-> msg, data |-> NoData]
  /\ thrown' = "none"
  /\ UNCHANGED serviceCalls

\* the handler hands the payload to the service and reports success
ToolSuccess(tool, svc, payload, msg, data) ==
  /\ serviceCalls' = Append(serviceCalls, [service |-> svc, payload |-> payload])
  /\ toolResult' = [tool |-> tool, success |-> TRUE, message |-> msg, data |-> data]
  /\ thrown' = "none"

\* TransferTool putting a job on the queue before it validates the input
TransferToolEager(input, userId, ok) ==
  /\ calls < MaxCalls
  /\ calls' = calls + 1
  /\ ok
  /\ jobs' = Append(jobs, NewJob(TransactionQueue,
                 [rec |-> MaxRecords + 1, valid |-> TRUE, amounts |-> GoodAmounts]))
  /\ IF \/ userId = NoUser
        \/ Trim(input.to) = <<>>
        \/ NotPositive(ParseFloat(input.amount))
        \/ StartsWith(input.to, "@")
     THEN ToolFailure("transfer", "Transfer failed")
     ELSE ToolSuccess("transfer", "transferToken",
            [NoData EXCEPT !.to = input.to, !.amount = input.amount],
            "Transfer initiated",
            [NoData EXCEPT !.to = input.to, !.amount = input.amount])
  /\ UNCHANGED <<faults, aliases, aliasOps, records, workers, settled, wallets,
                 users, provisioned, accounts, toolRegistry, saving, signing, httpVars>>

\* TransferTool handing the recipient on as it was typed, alias or not
TransferToolAliasText(input, userId, ok) ==
  /\ calls < MaxCalls
  /\ calls' = calls + 1
  /\ ok
  /\ IF \/ userId = NoUser
        \/ Trim(input.to) = <<>>
        \/ NotPositive(ParseFloat(input.amount))
     THEN ToolFailure("transfer", "Transfer failed")
     ELSE ToolSuccess("transfer", "transferToken",
            [NoData EXCEPT !.to = input.to, !.amount = input.amount,
                           !.asset = input.asset, !.chain = input.chain],
            "Transfer initiated",
            [NoData EXCEPT !.to = input.to, !.amount = input.amount,
                           !.asset = input.asset, !.chain = input.chain])
  /\ UNCHANGED <<faults, aliases, aliasOps, nonToolVars>>

\* transferTool().execute(input, userId); ok = FALSE: resolveAlias throws
TransferTool(input, userId, ok) ==
  /\ calls < MaxCalls
  /\ calls' = calls + 1
  /\ ok \/ (userId # NoUser /\ Trim(input.to) # <<>>
            /\ ~NotPositive(ParseFloat(input.amount))
            /\ StartsWith(input.to, "@") /\ faults < MaxFaults)
  /\ faults' = IF ok THEN faults ELSE faults + 1
  /\ IF userId = NoUser
     THEN ToolFailure("transfer", "User must be authenticated to transfer")
     ELSE IF Trim(input.to) = <<>>
     THEN ToolFailure("transfer", "Recipient address cannot be empty")
     ELSE IF NotPositive(ParseFloat(input.amount))
     THEN ToolFailure("transfer", "Transfer amount must be a positive number")
     ELSE IF StartsWith(input.to, "@") /\ ~ok
     THEN ToolFailure("transfer", "storage error")
     ELSE IF StartsWith(input.to, "@") /\ ResolveAlias(userId, input.to) = {}
     THEN ToolFailure("transfer", "Alias not found")
     ELSE \E toAddress \in (IF StartsWith(input.to, "@")
                            THEN ResolveAlias(userId, input.to) ELSE {input.to}) :
            ToolSuccess("transfer", "transferToken",
              [NoData EXCEPT !.to = toAddress, !.amount = input.amount,
                             !.asset = input.asset, !.chain = input.chain],
              "Transfer initiated",
              [NoData EXCEPT !.to = toAddress, !.amount = input.amount,
                             !.asset = input.asset, !.chain = input.chain])
  /\ aliasOps' = IF /\ userId # NoUser
                    /\ Trim(input.to) # <<>>
                    /\ ~NotPositive(ParseFloat(input.amount))
                    /\ StartsWith(input.to, "@")
                 THEN aliasOps + 1 ELSE aliasOps
  /\ UNCHANGED <<aliases, nonToolVars>>

\* SwapTool without the comparison of the two assets
SwapToolSameAsset(input, userId) ==
  /\ calls < MaxCalls
  /\ calls' = calls + 1
  /\ IF userId = NoUser \/ NotPositive(ParseFloat(input.amount))
     THEN ToolFailure("swap", "Swap failed")
     ELSE ToolSuccess("swap", "swapToken",
            [NoData EXCEPT !.fromAsset = input.fromAsset, !.toAsset = input.toAsset,
                           !.amount = input.amount],
            "Swap initiated",
            [NoData EXCEPT !.fromAsset = input.fromAsset, !.toAsset = input.toAsset,
                           !.amount = input.amount])
  /\ UNCHANGED <<faults, aliases, aliasOps, nonToolVars>>

\* swapTool().execute(input, userId)
SwapTool(input, userId) ==
  /\ calls < MaxCalls
  /\ calls' = calls + 1
  /\ IF userId = NoUser
     THEN ToolFailure("swap", "User must be authenticated to swap")
     ELSE IF NotPositive(ParseFloat(input.amount))
     THEN ToolFailure("swap", "Swap amount must be a positive number")
     ELSE IF Trim(input.fromAsset) = <<>> \/ Trim(input.toAsset) = <<>>
     THEN ToolFailure("swap", "From and to assets cannot be empty")
     ELSE IF input.fromAsset = input.toAsset
     THEN ToolFailure("swap", "Cannot swap the same asset")
     ELSE ToolSuccess("swap", "swapToken",
            [NoData EXCEPT !.fromAsset = input.fromAsset, !.toAsset = input.toAsset,
                           !.amount = input.amount, !.protocol = input.protocol,
                           !.chain = input.chain],
            "Swap initiated",
            [NoData EXCEPT !.fromAsset = input.fromAsset, !.toAsset = input.toAsset,
                           !.amount = input.amount,
                           !.protocol = IF input.protocol = <<>>
                                        THEN <<"d", "e", "f", "a", "u", "l", "t">>
                                        ELSE input.protocol,
                           !.chain = input.chain])
  /\ UNCHANGED <<faults, aliases, aliasOps, nonToolVars>>

(***************************************************************************)
(* AliasService.saveAlias and the create_alias / resolve_alias handlers.   *)
(***************************************************************************)
IsUpper(c) == \E k \in DOMAIN UpperChars : UpperChars[k] = c
IsLower(c) == \E k \in DOMAIN LowerChars : LowerChars[k] = c
IsAlnum(c) == IsUpper(c) \/ IsLower(c) \/ IsDigit(c)
IsHex(c) == IsDigit(c) \/ c \in {"a", "b", "c", "d", "e", "f", "A", "B", "C", "D", "E", "F"}

\* /^0x[a-fA-F0-9]{40}$/.test(address)
IsAddress(address) ==
  /\ Len(address) = 42
  /\ address[1] = "0"
  /\ address[2] = "x"
  /\ \A k \in 3..42 : IsHex(address[k])

ReservedAliases ==
  { <<"a", "d", "m", "i", "n">>, <<"s", "y", "s", "t", "e", "m">>,
    <<"r", "o", "o", "t">>, <<"a", "p", "i">>, <<"a", "p", "p">> }

\* validateAliasFormat: the message of the error it throws, "none" if it
\* returns
ValidateAliasFormat(alias) ==
  LET cleanAlias == IF StartsWith(alias, "@") THEN Tail(alias) ELSE alias IN
  IF Len(cleanAlias) < 3 \/ Len(cleanAlias) > 20
  THEN "Alias must be between 3 and 20 characters"
  ELSE IF ~(/\ IsAlnum(cleanAlias[1])
            /\ \A k \in 2..Len(cleanAlias) :
                 IsAlnum(cleanAlias[k]) \/ cleanAlias[k] \in {"_", "-"})
  THEN "Alias must start with alphanumeric"
  ELSE IF ToLowerCase(cleanAlias) \in ReservedAliases
  THEN "This alias is reserved and cannot be used"
  ELSE "none"

\* the checks of saveAlias that run before the repository is used
SaveAliasError(alias, address) ==
  IF Trim(address) = <<>> THEN "Address is required"
  ELSE IF ~IsAddress(address) THEN "Invalid Ethereum address format"
  ELSE ValidateAliasFormat(alias)

\* the id generated for the next row inserted in the alias table
NewAliasId ==
  LET used == { a.id : a \in aliases }
              \cup { saving[i].existing.id :
                       i \in { k \in Instances : saving[k].pc = "save"
                                                  /\ saving[k].existing # NoAlias } }
  IN IF used = {} THEN 1 ELSE 1 + CHOOSE m \in used : \A n \in used : n <= m

\* the rows that the findOne of saveAlias can return
ExistingAliases(userId, alias) ==
  { a \in aliases : a.ownerId = userId /\ a.alias = ToLowerCase(alias) }

AliasInputs ==
  { <<"b", "o", "b">>, <<"@", "B", "o", "b">>, <<"a", "b">>, <<"a", "p", "p">>,
    <<"-", "a", "b">>, <<" ">> }

AddressInputs == { Address1, Address2, <<"0", "x", "a", "1">>, <<>> }

CreateAliasInputs == [alias : AliasInputs, address : AddressInputs]

ResolveAliasInputs ==
  [alias : { <<"@", "b", "o", "b">>, <<"B", "o", "b">>, <<"@", "e", "v", "e">>, <<" ">> }]

\* CreateAliasTool saving the alias without asking who the actor is
CreateAliasToolAnonymous(input, userId, err) ==
  /\ calls < MaxCalls
  /\ calls' = calls + 1
  /\ err = NoError
  /\ aliasOps' = aliasOps + 2
  /\ aliases' = aliases \cup
       {[id |-> NewAliasId, ownerId |-> userId, alias |-> ToLowerCase(input.alias),
         aliasAddress |-> input.address]}
  /\ ToolFailure("create_alias", "failed")
  /\ UNCHANGED <<faults, nonToolVars>>

\* createAliasTool().execute(input, userId); err names the repository call of
\* saveAlias that throws
CreateAliasTool(input, userId, err) ==
  LET checked == /\ userId # NoUser
                 /\ Trim(input.alias) # <<>>
                 /\ Trim(input.address) # <<>>
                 /\ SaveAliasError(input.alias, input.address) = "none"
      existing == ExistingAliases(userId, input.alias)
  IN
  /\ calls < MaxCalls
  /\ calls' = calls + 1
  /\ err \in {NoError, "findOne", "save"}
  /\ err = NoError \/ (checked /\ faults < MaxFaults)
  /\ faults' = IF err = NoError THEN faults ELSE faults + 1
  /\ aliasOps' = IF ~checked THEN aliasOps
                 ELSE IF err = "findOne" THEN aliasOps + 1 ELSE aliasOps + 2
  /\ IF userId = NoUser
     THEN /\ ToolFailure("create_alias", "User must be authenticated to create alias")
          /\ UNCHANGED aliases
     ELSE IF Trim(input.alias) = <<>> \/ Trim(input.address) = <<>>
     THEN /\ ToolFailure("create_alias", "Alias and address cannot be empty")
          /\ UNCHANGED aliases
     ELSE IF SaveAliasError(input.alias, input.address) # "none"
     THEN /\ ToolFailure("create_alias", SaveAliasError(input.alias, input.address))
          /\ UNCHANGED aliases
     ELSE IF err # NoError
     THEN /\ ToolFailure("create_alias", "storage error")
          /\ UNCHANGED aliases
     ELSE IF existing # {}
     THEN \E e \in existing :
            /\ aliases' = (aliases \ {e}) \cup {[e EXCEPT !.aliasAddress = input.address]}
            /\ toolResult' = [tool |-> "create_alias", success |-> TRUE,
                              message |-> "Alias saved",
                              data |-> [alias |-> e.alias, address |-> input.address]]
            /\ thrown' = "none"
            /\ UNCHANGED serviceCalls
     ELSE /\ aliases' = aliases \cup
                 {[id |-> NewAliasId, ownerId |-> userId,
                   alias |-> ToLowerCase(input.alias),
                   aliasAddress |-> input.address]}
          /\ toolResult' = [tool |-> "create_alias", success |-> TRUE,
                            message |-> "Alias saved",
                            data |-> [alias |-> ToLowerCase(input.alias),
                                      address |-> input.address]]
          /\ thrown' = "none"
          /\ UNCHANGED serviceCalls
  /\ UNCHANGED nonToolVars

\* ResolveAliasTool letting the error of the repository escape
ResolveAliasToolThrowing(input, userId, ok) ==
  /\ calls < MaxCalls
  /\ calls' = calls + 1
  /\ ~ok
  /\ faults < MaxFaults
  /\ faults' = faults + 1
  /\ aliasOps' = aliasOps + 1
  /\ thrown' = "storage error"
  /\ UNCHANGED <<aliases, serviceCalls, toolResult, nonToolVars>>

\* resolveAliasTool().execute(input, userId); ok = FALSE: resolveAlias throws
ResolveAliasTool(input, userId, ok) ==
  LET checked == userId # NoUser /\ Trim(input.alias) # <<>> IN
  /\ calls < MaxCalls
  /\ calls' = calls + 1
  /\ ok \/ (checked /\ faults < MaxFaults)
  /\ faults' = IF ok THEN faults ELSE faults + 1
  /\ aliasOps' = IF checked THEN aliasOps + 1 ELSE aliasOps
  /\ IF userId = NoUser
     THEN ToolFailure("resolve_alias", "User must be authenticated to resolve alias")
     ELSE IF Trim(input.alias) = <<>>
     THEN ToolFailure("resolve_alias", "Alias cannot be empty")
     ELSE IF ~ok
     THEN ToolFailure("resolve_alias", "storage error")
     ELSE IF ResolveAlias(userId, input.alias) = {}
     THEN ToolFailure("resolve_alias", "Alias not found in your contacts")
     ELSE \E address \in ResolveAlias(userId, input.alias) :
            /\ toolResult' = [tool |-> "resolve_alias", success |-> TRUE,
                              message |-> "Resolved",
                              data |-> [alias |-> input.alias, address |-> address]]
            /\ thrown' = "none"
            /\ UNCHANGED serviceCalls
  /\ UNCHANGED <<aliases, nonToolVars>>

(***************************************************************************)
(* AliasService.saveAlias and deleteAlias called on the service, from      *)
(* requests that are in flight at the same time.                           *)
(***************************************************************************)
\* the users of the table once one more user has signed up
AliasOwners == 1..(MaxUsers + 1)

LongLabel == [k \in 1..21 |-> "a"]

\* labels that validateAliasFormat refuses
RefusedLabels ==
  { <<"a", "p", "p">>, <<"@", "R", "o", "o", "t">>, <<"a", "b">>, <<"@", "a", "b">>,
    LongLabel, <<"-", "a", "b">>, <<"@", "_", "a", "b">> }

\* calls of saveAlias with a refused label and nothing else wrong
RefusedInputs == [userId : {1}, alias : RefusedLabels, address : {Address1}]

\* the calls of saveAlias that the model makes: well-formed ones, and ones
\* with a refused label, a malformed address or no user id
SaveAliasInputs ==
  [userId : AliasOwners,
   alias : { <<"b", "o", "b">>, <<"B", "o", "b">>, <<"@", "b", "o", "b">> },
   address : {Address1, Address2}]
  \cup RefusedInputs
  \cup { [userId |-> 1, alias |-> <<"b", "o", "b">>, address |-> <<"0", "x", "a", "1">>],
         [userId |-> NoUser, alias |-> <<"b", "o", "b">>, address |-> Address1] }

\* the labels deleteAlias and resolveAlias are called with
LookupLabels ==
  { <<"b", "o", "b">>, <<"@", "b", "o", "b">>, <<"@", "B", "O", "B">>,
    <<"@", "@", "b", "o", "b">> }

\* the message of the ValidationError that saveAlias throws before it uses
\* the repository, "none" if it throws none
SaveAliasValidation(data) ==
  IF data.userId = NoUser THEN "User ID is required"
  ELSE SaveAliasError(data.alias, data.address)

\* the outcome of the checks for each call the model makes, as a table
SaveAliasValidationOf ==
  [data \in SaveAliasInputs |-> SaveAliasValidation(data)] @@ << >>

\* what the alias service calls leave alone
nonAliasVars ==
  <<records, jobs, workers, settled, faults, wallets, users, provisioned,
    serviceCalls, toolResult, accounts, toolRegistry, requests, signing, httpVars>>

\* SaveAliasFindOne without the format check of the label
SaveAliasFindOneUnvalidated(i, data, ok) ==
  /\ saving[i].pc = "idle"
  /\ calls < MaxAliasCalls
  /\ calls' = calls + 1
  /\ ok
  /\ data.userId # NoUser
  /\ IsAddress(data.address)
  /\ aliasOps' = aliasOps + 1
  /\ \E existing \in (IF ExistingAliases(data.userId, data.alias) = {}
                       THEN {NoAlias}
                       ELSE ExistingAliases(data.userId, data.alias)) :
       saving' = [saving EXCEPT ![i] =
                    [pc |-> "save", data |-> data, existing |-> existing]]
  /\ UNCHANGED <<thrown, aliases, nonAliasVars>>

\* saveAlias(data) up to the point where its findOne resolves: the checks,
\* then the row read for the owner and the lower-cased label; ok = FALSE: the
\* findOne throws
SaveAliasFindOne(i, data, ok) ==
  /\ saving[i].pc = "idle"
  /\ calls < MaxAliasCalls
  /\ calls' = calls + 1
  /\ ok \/ SaveAliasValidationOf[data] = "none"
  /\ IF SaveAliasValidationOf[data] # "none"
     THEN /\ thrown' = SaveAliasValidationOf[data]
          /\ UNCHANGED <<saving, aliasOps>>
     ELSE /\ aliasOps' = aliasOps + 1
          /\ IF ok
             THEN /\ \E existing \in (IF ExistingAliases(data.userId, data.alias) = {}
                                      THEN {NoAlias}
                                      ELSE ExistingAliases(data.userId, data.alias)) :
                       saving' = [saving EXCEPT ![i] =
                                    [pc |-> "save", data |-> data, existing |-> existing]]
                  /\ UNCHANGED thrown
             ELSE /\ thrown' = "storage error"
                  /\ UNCHANGED saving
  /\ UNCHANGED <<aliases, nonAliasVars>>

\* the rest of saveAlias: repository.save of the row that was found, with the
\* new address (an update, or an insert under the same id when the row is
\* gone), or of a new row; ok = FALSE: the save throws
SaveAliasSave(i, ok) ==
  LET call == saving[i] IN
  /\ call.pc = "save"
  /\ aliasOps' = aliasOps + 1
  /\ saving' = [saving EXCEPT ![i] = IdleSave]
  /\ IF ~ok
     THEN /\ thrown' = "storage error"
          /\ UNCHANGED aliases
     ELSE IF call.existing # NoAlias
     THEN /\ aliases' = { a \in aliases : a.id # call.existing.id }
                        \cup {[call.existing EXCEPT !.aliasAddress = call.data.address]}
          /\ thrown' = "none"
     ELSE /\ aliases' = aliases \cup
                 {[id |-> NewAliasId, ownerId |-> call.data.userId,
                   alias |-> ToLowerCase(call.data.alias),
                   aliasAddress |-> call.data.address]}
          /\ thrown' = "none"
  /\ UNCHANGED <<calls, nonAliasVars>>

\* deleteAlias(userId, alias): one delete statement for the owner and the
\* label without its '@', lower-cased; ok = FALSE: the delete throws
DeleteAlias(userId, alias, ok) ==
  /\ calls < MaxAliasCalls
  /\ calls' = calls + 1
  /\ aliasOps' = aliasOps + 1
  /\ IF ok
     THEN /\ aliases' = { a \in aliases :
                            ~(a.ownerId = userId /\ a.alias = CleanAlias(alias)) }
          /\ thrown' = "none"
     ELSE /\ thrown' = "storage error"
          /\ UNCHANGED aliases
  /\ UNCHANGED <<saving, nonAliasVars>>

InitAlias ==
  /\ InitQueues
  /\ users = [u \in AliasOwners |-> NoAddress]
  /\ aliases = {}
  /\ accounts = {}

NextAlias ==
  \/ \E i \in Instances, data \in SaveAliasInputs, ok \in BOOLEAN :
       SaveAliasFindOne(i, data, ok)
  \/ \E i \in Instances, ok \in BOOLEAN : SaveAliasSave(i, ok)
  \/ \E userId \in AliasOwners, alias \in LookupLabels, ok \in BOOLEAN :
       DeleteAlias(userId, alias, ok)

SpecAlias == InitAlias /\ [][NextAlias]_vars

(***************************************************************************)
(* The signup / signin handlers with OnboardingService and AuthService.    *)
(***************************************************************************)
Email1 == <<"a", "@", "b", ".", "c">>
Email2 == <<"z", "@", "b", ".", "c">>

Password1 == <<"p", "a", "s", "s", "w", "o", "r", "d">>

\* user.password of a row read back from the user table: the User entity
\* declares no password column
NoPassword == <<>>

IsSpace(c) == c = " "

\* /^[^\s@]+@[^\s@]+\.[^\s@]+$/.test(email)
EmailRegex(email) ==
  \E a \in 2..Len(email), d \in 4..(Len(email) - 1) :
    /\ a + 1 < d
    /\ email[a] = "@"
    /\ email[d] = "."
    /\ \A k \in (1..Len(email)) \ {a} : ~IsSpace(email[k]) /\ email[k] # "@"

\* bcrypt.hash / bcrypt.compare
Hash(password) == <<"$", "2", "a", "$">> \o password
Compare(password, hashed) == hashed = Hash(password)

\* the id of the next row saved in the user table
NewUserId == Cardinality(DOMAIN users) + 1

\* the rows of the user table with the given email
AccountsOf(email) == { a \in accounts : a.email = email }

\* a field that the input object does not have
Absent == "absent"

SignupInputs ==
  [provider : {"email", "google"},
   email : {Email1, Email2, <<"a", "b">>},
   password : {Password1, <<"p", "w">>, <<" ", " ", " ", " ", " ", " ", " ", " ">>, <<>>},
   chain : Chains \cup {Absent}]

SigninInputs ==
  [provider : {"email", "github"},
   email : {Email1, Email2, <<" ">>},
   password : {Password1, <<"p", "w">>, <<>>}]

\* the message of the error thrown before the user table is used, "none" if
\* the checks of the handler, OnboardingService and AuthService all pass
CredentialError(tool, input) ==
  IF input.provider # "email" THEN "OAuth provider not yet implemented"
  ELSE IF input.password = <<>>
  THEN (IF tool = "signup" THEN "Password is required for email signup"
                           ELSE "Password is required for email login")
  ELSE IF Trim(input.email) = <<>> \/ Trim(input.password) = <<>>
  THEN "Email and password cannot be empty"
  ELSE IF tool = "signup" /\ ~EmailRegex(input.email) THEN "Invalid email format"
  ELSE IF tool = "signup" /\ Len(input.password) < 8
  THEN "Password must be at least 8 characters long"
  ELSE "none"

\* SignupTool putting the wallet job on the queue before the account exists
SignupToolEager(input, userId, err) ==
  /\ calls < MaxCalls
  /\ calls' = calls + 1
  /\ err = NoError
  /\ faults' = faults
  /\ jobs' = Append(jobs,
         [NewJob(WalletQueue, [userId |-> NewUserId, chain |-> "Base", valid |-> TRUE])
          EXCEPT !.returnvalue = NoWalletResult])
  /\ ToolFailure("signup", "failed")
  /\ UNCHANGED <<accounts, users, records, workers, settled, wallets, provisioned,
                 aliases, aliasOps, toolRegistry, saving, signing, httpVars>>

\* signupTool().execute(input): err names the call that throws, the findOne
\* or the save on the user table or the add on the wallet queue; a chain that
\* is not given is 'Base'
SignupTool(input, userId, err) ==
  LET checked == CredentialError("signup", input) = "none"
      saves == checked /\ AccountsOf(input.email) = {} /\ err \notin {"findOne", "save"}
  IN
  /\ calls < MaxCalls
  /\ calls' = calls + 1
  /\ err \in {NoError, "findOne", "save", "add"}
  /\ \/ err = NoError
     \/ /\ checked
        /\ faults < MaxFaults
        /\ err = "findOne" \/ AccountsOf(input.email) = {}
  /\ faults' = IF err = NoError THEN faults ELSE faults + 1
  /\ IF saves
     THEN /\ accounts' = accounts \cup
                 {[id |-> NewUserId, email |-> input.email, password |-> NoPassword]}
          /\ users' = users @@ (NewUserId :> NoAddress)
     ELSE UNCHANGED <<accounts, users>>
  /\ IF saves /\ err = NoError
     THEN /\ jobs' = Append(jobs,
                 [NewJob(WalletQueue,
                         [userId |-> NewUserId,
                          chain |-> IF input.chain = Absent THEN "Base" ELSE input.chain,
                          valid |-> TRUE])
                  EXCEPT !.returnvalue = NoWalletResult])
          /\ toolResult' = [tool |-> "signup", success |-> TRUE,
                            message |-> "Account created successfully",
                            data |-> [userId |-> NewUserId, email |-> input.email,
                                      walletJobId |-> Len(jobs) + 1]]
          /\ thrown' = "none"
          /\ UNCHANGED serviceCalls
     ELSE /\ ToolFailure("signup",
                 IF ~checked THEN CredentialError("signup", input)
                 ELSE IF err = "findOne" THEN "storage error"
                 ELSE IF AccountsOf(input.email) # {}
                 THEN "User already exists with this email"
                 ELSE IF err = "save" THEN "storage error"
                 ELSE "queue error")
          /\ UNCHANGED jobs
  /\ UNCHANGED <<records, workers, settled, wallets, provisioned, aliases, aliasOps,
                 toolRegistry, saving, signing, httpVars>>

(***************************************************************************)
(* The signup handler called from requests that are in flight at the same  *)
(* time: one step per await of AuthService / OnboardingService.            *)
(***************************************************************************)
\* the signup calls that the model makes at the same time
SignupCalls ==
  { d \in SignupInputs : /\ d.provider = "email"
                         /\ d.chain = "Base"
                         /\ d.email \in {Email1, Email2}
                         /\ d.password \in {Password1, <<"p", "w">>} }

\* what the steps of a signup leave alone
nonSignupVars ==
  <<records, workers, settled, wallets, provisioned, aliases, aliasOps,
    toolRegistry, requests, saving, httpVars>>

\* the checks, then userRepository.findOne({ where: { email } }) resolves;
\* ok = FALSE: the findOne throws
SignupFindOne(i, input, ok) ==
  LET checked == CredentialError("signup", input) = "none" IN
  /\ signing[i].pc = "idle"
  /\ calls < MaxSignups
  /\ calls' = calls + 1
  /\ ok \/ (checked /\ faults < MaxFaults)
  /\ faults' = IF ok THEN faults ELSE faults + 1
  /\ IF ~checked
     THEN ToolFailure("signup", CredentialError("signup", input)) /\ UNCHANGED signing
     ELSE IF ~ok
     THEN ToolFailure("signup", "storage error") /\ UNCHANGED signing
     ELSE IF AccountsOf(input.email) # {}
     THEN /\ ToolFailure("signup", "User already exists with this email")
          /\ UNCHANGED signing
     ELSE /\ signing' = [signing EXCEPT ![i] = [pc |-> "save", input |-> input]]
          /\ UNCHANGED <<toolResult, thrown, serviceCalls>>
  /\ UNCHANGED <<jobs, accounts, users, nonSignupVars>>

\* SignupSave on a user table whose email column is not unique
SignupSaveNoUnique(i, ok) ==
  /\ signing[i].pc = "save"
  /\ ok
  /\ accounts' = accounts \cup
         {[id |-> NewUserId, email |-> signing[i].input.email, password |-> NoPassword]}
  /\ users' = users @@ (NewUserId :> NoAddress)
  /\ signing' = [signing EXCEPT ![i] =
                   [pc |-> "add", input |-> signing[i].input, userId |-> NewUserId]]
  /\ UNCHANGED <<toolResult, thrown, serviceCalls, jobs, calls, faults, nonSignupVars>>

\* bcrypt.hash, then userRepository.save(newUser): the insert is refused when
\* a row with the email exists (unique: true on User.email); ok = FALSE: the
\* save throws for another reason
SignupSave(i, ok) ==
  LET input == signing[i].input IN
  /\ signing[i].pc = "save"
  /\ ok \/ faults < MaxFaults
  /\ faults' = IF ok THEN faults ELSE faults + 1
  /\ IF ok /\ AccountsOf(input.email) = {}
     THEN /\ accounts' = accounts \cup
                 {[id |-> NewUserId, email |-> input.email, password |-> NoPassword]}
          /\ users' = users @@ (NewUserId :> NoAddress)
          /\ signing' = [signing EXCEPT ![i] =
                           [pc |-> "add", input |-> input, userId |-> NewUserId]]
          /\ UNCHANGED <<toolResult, thrown, serviceCalls>>
     ELSE /\ ToolFailure("signup",
                 IF ok THEN "duplicate key value violates unique constraint"
                       ELSE "storage error")
          /\ signing' = [signing EXCEPT ![i] = IdleSignup]
          /\ UNCHANGED <<accounts, users>>
  /\ UNCHANGED <<jobs, calls, nonSignupVars>>

\* walletQueue.add("provisionWallet", { userId, chain }), then the handler
\* returns; ok = FALSE: the add throws
SignupAdd(i, ok) ==
  LET call == signing[i] IN
  /\ call.pc = "add"
  /\ ok \/ faults < MaxFaults
  /\ faults' = IF ok THEN faults ELSE faults + 1
  /\ signing' = [signing EXCEPT ![i] = IdleSignup]
  /\ IF ok
     THEN /\ jobs' = Append(jobs,
                 [NewJob(WalletQueue,
                         [userId |-> call.userId, chain |-> call.input.chain,
                          valid |-> TRUE])
                  EXCEPT !.returnvalue = NoWalletResult])
          /\ toolResult' = [tool |-> "signup", success |-> TRUE,
                            message |-> "Account created successfully",
                            data |-> [userId |-> call.userId,
                                      email |-> call.input.email,
                                      walletJobId |-> Len(jobs) + 1]]
          /\ thrown' = "none"
          /\ UNCHANGED serviceCalls
     ELSE /\ ToolFailure("signup", "queue error")
          /\ UNCHANGED jobs
  /\ UNCHANGED <<accounts, users, calls, nonSignupVars>>

NextSignup ==
  \/ \E i \in Instances, input \in SignupCalls, ok \in BOOLEAN :
       SignupFindOne(i, input, ok)
  \/ \E i \in Instances, ok \in BOOLEAN : SignupSave(i, ok)
  \/ \E i \in Instances, ok \in BOOLEAN : SignupAdd(i, ok)

SpecSignup == Init /\ [][NextSignup]_vars

\* findUserWallets: the rows of the wallet table owned by the user
FindUserWallets(userId) ==
  { k \in DOMAIN wallets : wallets[k].owner = userId }

\* signinTool().execute(input): err names the call that throws, the findOne
\* on the user table or a find on the wallet table
SigninTool(input, userId, err) ==
  LET checked == CredentialError("signin", input) = "none"
      found == AccountsOf(input.email)
      authError(a) == IF a.password = NoPassword THEN "Invalid authentication method"
                      ELSE IF ~Compare(input.password, a.password)
                      THEN "Invalid email or password"
                      ELSE "none"
  IN
  /\ calls < MaxCalls
  /\ calls' = calls + 1
  /\ err \in {NoError, "findOne", "find"}
  /\ \/ err = NoError
     \/ /\ checked
        /\ faults < MaxFaults
        /\ err = "findOne" \/ \E a \in found : authError(a) = "none"
  /\ faults' = IF err = NoError THEN faults ELSE faults + 1
  /\ IF ~checked
     THEN ToolFailure("signin", CredentialError("signin", input))
     ELSE IF err = "findOne"
     THEN ToolFailure("signin", "storage error")
     ELSE IF found = {}
     THEN ToolFailure("signin", "Invalid email or password")
     ELSE \E a \in found :
            IF authError(a) # "none"
            THEN ToolFailure("signin", authError(a))
            ELSE IF err = "find"
            THEN ToolFailure("signin", "storage error")
            ELSE /\ toolResult' = [tool |-> "signin", success |-> TRUE,
                                   message |-> "Welcome back",
                                   data |-> [userId |-> a.id, email |-> a.email,
                                             hasWallet |-> FindUserWallets(a.id) # {},
                                             wallets |-> FindUserWallets(a.id)]]
                 /\ thrown' = "none"
                 /\ UNCHANGED serviceCalls
  /\ UNCHANGED <<aliases, aliasOps, nonToolVars>>

(***************************************************************************)
(* The balance_check and portfolio handlers.                               *)
(***************************************************************************)
BalanceCheckInputs == [asset : {<<"E", "T", "H">>}, chain : {"Base"}]

PortfolioInputs == [view : {"balances", "activity"}]

\* balanceCheckTool().execute(input, userId)
BalanceCheckTool(input, userId) ==
  /\ calls < MaxCalls
  /\ calls' = calls + 1
  /\ IF userId = NoUser
     THEN ToolFailure("balance_check", "User must be authenticated to check balance")
     ELSE ToolSuccess("balance_check", "checkTokenBalance", input, "Balance check",
            [asset |-> input.asset, balance |-> <<"0", ".", "0", "0">>,
             chain |-> input.chain])
  /\ UNCHANGED <<faults, aliases, aliasOps, nonToolVars>>

\* portfolioTool().execute(input, userId)
PortfolioTool(input, userId) ==
  /\ calls < MaxCalls
  /\ calls' = calls + 1
  /\ IF userId = NoUser
     THEN ToolFailure("portfolio", "User must be authenticated to view portfolio")
     ELSE /\ toolResult' = [tool |-> "portfolio", success |-> TRUE,
                            message |-> "Portfolio retrieved",
                            data |-> [view |-> input.view, balances |-> <<>>,
                                      activity |-> <<>>]]
          /\ thrown' = "none"
          /\ UNCHANGED serviceCalls
  /\ UNCHANGED <<faults, aliases, aliasOps, nonToolVars>>

\* the handlers called on their own, without the orchestrator
NextTools ==
  \/ \E input \in TransferInputs, userId \in UserIds \cup {NoUser}, ok \in BOOLEAN :
       TransferTool(input, userId, ok) /\ UNCHANGED requests
  \/ \E input \in SwapInputs, userId \in UserIds \cup {NoUser} :
       SwapTool(input, userId) /\ UNCHANGED requests

SpecTools == InitTools /\ [][NextTools]_vars

(***************************************************************************)
(* ToolOrchestrator.mapTool and getAvailableTools                          *)
(***************************************************************************)
\* the inputs of each handler that the model exercises
InputsOf(action) ==
  CASE action = "signup" -> SignupInputs
    [] action = "signin" -> SigninInputs
    [] action = "create_alias" -> CreateAliasInputs
    [] action = "resolve_alias" -> ResolveAliasInputs
    [] action = "transfer" -> TransferInputs
    [] action = "swap" -> SwapInputs
    [] action = "balance_check" -> BalanceCheckInputs
    [] action = "portfolio" -> PortfolioInputs

\* names that a lookup on the registry object finds on Object.prototype:
\* the value found is truthy and has no execute method
PrototypeKeys == {"constructor"}

\* action kinds that are not registered
UnknownActions == {"stake"} \cup PrototypeKeys

\* tool.execute(input, userId) of the handler found in the registry
Execute(handler, input, userId) ==
  CASE handler = "signupTool" ->
         \E err \in {NoError, "findOne", "save", "add"} : SignupTool(input, userId, err)
    [] handler = "signinTool" ->
         \E err \in {NoError, "findOne", "find"} : SigninTool(input, userId, err)
    [] handler = "createAliasTool" ->
         \E err \in {NoError, "findOne", "save"} : CreateAliasTool(input, userId, err)
    [] handler = "resolveAliasTool" ->
         \E ok \in BOOLEAN : ResolveAliasTool(input, userId, ok)
    [] handler = "transferTool" ->
         \E ok \in BOOLEAN : TransferTool(input, userId, ok)
    [] handler = "swapTool" -> SwapTool(input, userId)
    [] handler = "balanceCheckTool" -> BalanceCheckTool(input, userId)
    [] handler = "portfolioTool" -> PortfolioTool(input, userId)

\* an error leaves mapTool (or reaches next(e) in the chat route) before any
\* handler has run
Throw(error) ==
  /\ thrown' = error
  /\ UNCHANGED <<records, jobs, workers, settled, faults, wallets, users, provisioned,
                 aliases, serviceCalls, toolResult, calls, aliasOps, accounts,
                 toolRegistry, saving, signing, httpVars>>

\* MapTool dropping the entry of the action it has routed
MapToolForgetful(action, input, userId) ==
  /\ action \in DOMAIN toolRegistry
  /\ calls < MaxCalls
  /\ calls' = calls + 1
  /\ toolRegistry' = [a \in DOMAIN toolRegistry \ {action} |-> toolRegistry[a]]
  /\ ToolFailure(action, "failed")
  /\ UNCHANGED <<records, jobs, workers, settled, faults, wallets, users, provisioned,
                 aliases, aliasOps, accounts, saving, signing, httpVars>>

\* MapTool answering an unregistered action with an empty result
MapToolLenient(action, input, userId) ==
  IF action \in DOMAIN toolRegistry
  THEN Execute(toolRegistry[action], input, userId)
  ELSE /\ thrown' = "none"
       /\ toolResult' = [tool |-> action, success |-> TRUE, message |-> "ignored",
                         data |-> NoData]
       /\ UNCHANGED <<records, jobs, workers, settled, faults, wallets, users,
                      provisioned, aliases, serviceCalls, calls, aliasOps, accounts,
                      toolRegistry, saving, signing, httpVars>>

\* mapTool(input, userId), with action = input.action
MapTool(action, input, userId) ==
  IF action \in DOMAIN toolRegistry
  THEN Execute(toolRegistry[action], input, userId)
  ELSE IF action \in PrototypeKeys
  THEN Throw("tool.execute is not a function")
  ELSE Throw("Unknown tool action")

\* getAvailableTools()
GetAvailableTools == DOMAIN toolRegistry

\* the name property of a handler object
ToolName(handler) ==
  CASE handler = "signupTool" -> "signup"
    [] handler = "signinTool" -> "signin"
    [] handler = "createAliasTool" -> "create_alias"
    [] handler = "resolveAliasTool" -> "resolve_alias"
    [] handler = "transferTool" -> "transfer"
    [] handler = "swapTool" -> "swap"
    [] handler = "balanceCheckTool" -> "balance_check"
    [] handler = "portfolioTool" -> "portfolio"

(***************************************************************************)
(* The /chat route: the model's answer is parsed, validated with           *)
(* baseSchema and handed to the orchestrator.                              *)
(***************************************************************************)
\* the members of the chain enum of the schemas
ChainEnum == {"Base", "Ethereum", "Polygon", "Arbitrum", "Optimism"}

\* the JSON objects the language model can answer with: the action, its
\* fields, and whether every required field is there with its declared type
ChatInputsOf(action) ==
  CASE action = "signup" ->
         {[provider |-> "email", email |-> e, password |-> Password1, chain |-> c] :
            e \in {Email2, <<"a", "b">>}, c \in {"Ethereum", Absent, "Solana"}}
    [] action = "signin" ->
         {[provider |-> "email", email |-> Email1, password |-> Password1]}
    [] action = "create_alias" ->
         {[alias |-> <<"b", "o", "b">>, address |-> Address1]}
    [] action = "resolve_alias" -> {[alias |-> <<"@", "b", "o", "b">>]}
    [] action = "transfer" ->
         {[to |-> t, amount |-> <<"5">>, asset |-> <<"E", "T", "H">>, chain |-> c] :
            t \in {Address1, <<"@", "b", "o", "b">>}, c \in {"Base", "Solana"}}
    [] action = "swap" ->
         {[fromAsset |-> <<"E", "T", "H">>, toAsset |-> t, amount |-> <<"5">>,
           protocol |-> <<>>, chain |-> "Base"] :
            t \in {<<"E", "T", "H">>, <<"U", "S", "D", "C">>}}
    [] action = "balance_check" -> BalanceCheckInputs
    [] action = "portfolio" -> PortfolioInputs \cup {[view |-> "everything"]}

ChatJson ==
  UNION { [action : {Actions[k]}, typed : BOOLEAN, input : ChatInputsOf(Actions[k])] :
            k \in DOMAIN Actions }
  \cup [action : UnknownActions, typed : {TRUE}, input : {NoData}]

\* what chain.invoke resolves to: an answer without content, content that is
\* not JSON, or a JSON object
LLMResponses ==
  {[content |-> "none"], [content |-> "text"]} \cup
  {[content |-> "json", json |-> j] : j \in ChatJson}

\* baseSchema.safeParse(json).success: the discriminator is one of the eight
\* literals and the fields satisfy the schema of that action (z.string().email()
\* is taken to accept what the pattern local@domain.tld accepts)
BaseSchema(json) ==
  /\ json.action \in {Actions[k] : k \in DOMAIN Actions}
  /\ json.typed
  /\ json.action \in {"signup", "signin"} =>
       /\ json.input.provider \in {"email", "google", "github"}
       /\ EmailRegex(json.input.email)
  /\ json.action = "signup" => json.input.chain \in ChainEnum \cup {Absent}
  /\ json.action \in {"transfer", "swap"} => json.input.chain \in ChainEnum
  /\ json.action = "balance_check" => json.input.chain \in ChainEnum \cup {Absent}
  /\ json.action = "portfolio" => json.input.view \in {"balances", "activity", "pulse"}

\* baseSchema.parse(json): the object with the defaults of the schema filled in
BaseSchemaParse(json) ==
  IF json.action = "signup" /\ json.input.chain = Absent
  THEN [json.input EXCEPT !.chain = "Base"]
  ELSE json.input

\* ChatRoute handing the parsed JSON to the orchestrator without validating it
ChatRouteUnvalidated(query, response, ok, userId) ==
  /\ query # <<>>
  /\ ok
  /\ response.content = "json"
  /\ response.json.action \in DOMAIN toolRegistry
  /\ calls < MaxCalls
  /\ calls' = calls + 1
  /\ ToolFailure(response.json.action, "failed")
  /\ UNCHANGED <<records, jobs, workers, settled, faults, wallets, users, provisioned,
                 aliases, aliasOps, accounts, toolRegistry, saving, signing, httpVars>>

\* POST /chat; ok = FALSE: chain.invoke throws
ChatRoute(query, response, ok, userId) ==
  IF query = <<>>
  THEN Throw("user query was not received")
  ELSE IF ~ok
  THEN Throw("chain.invoke failed")
  ELSE IF response.content = "none"
  THEN Throw("failed to parse AI response")
  ELSE IF response.content # "json"
  THEN Throw("SyntaxError")
  ELSE IF ~BaseSchema(response.json)
  THEN Throw("ZodError")
  ELSE MapTool(response.json.action, BaseSchemaParse(response.json), userId)

(***************************************************************************)
(* The orchestrator and the chat route over all eight handlers.            *)
(***************************************************************************)
\* the users that signed up by email before
AccountTables ==
  { {}, {[id |-> 1, email |-> Email1, password |-> NoPassword]} }

InitDispatch ==
  /\ InitPipeline
  /\ aliases \in { t \in AliasTables : Cardinality(t) <= 1 }
  /\ accounts \in AccountTables

\* a call of mapTool or a request to the chat route arrives
Request ==
  /\ requests < MaxCalls
  /\ requests' = requests + 1

NextDispatch ==
  \/ \E k \in DOMAIN Actions, userId \in UserIds \cup {NoUser} :
       \E input \in InputsOf(Actions[k]) :
         Request /\ MapTool(Actions[k], input, userId)
  \/ \E action \in UnknownActions, userId \in UserIds \cup {NoUser} :
       Request /\ MapTool(action, NoData, userId)
  \/ \E query \in {<<>>, <<"q">>}, response \in LLMResponses, ok \in BOOLEAN,
        userId \in UserIds \cup {NoUser} :
       Request /\ ChatRoute(query, response, ok, userId)

SpecDispatch == InitDispatch /\ [][NextDispatch]_vars

(***************************************************************************)
(* The error classes and the Express error handler.                        *)
(***************************************************************************)
\* ApplicationError and the classes that extend it, with the default
\* statusCode of their constructors
StatusCodeOf ==
  [c \in {"ApplicationError", "ValidationError", "AuthenticationError",
          "AuthorizationError", "NotFoundError", "ForbiddenError", "RateLimitError",
          "InternalServerError", "BlockchainConnectionError"} |->
     CASE c = "ApplicationError" -> 500
       [] c = "ValidationError" -> 400
       [] c = "AuthenticationError" -> 401
       [] c = "AuthorizationError" -> 403
       [] c = "NotFoundError" -> 404
       [] c = "ForbiddenError" -> 403
       [] c = "RateLimitError" -> 429
       [] c = "InternalServerError" -> 500
       [] c = "BlockchainConnectionError" -> 502]

ApplicationErrors == DOMAIN StatusCodeOf

\* errors that are not instances of ApplicationError
OtherErrors == {"Error", "TypeError", "SyntaxError", "ZodError"}

\* the errors handed to next(e): the class (err.constructor), the message and
\* the statusCode, the default of the class or one given by the caller
Errors ==
  UNION { [class : {c}, message : {"failed", ""}, statusCode : {StatusCodeOf[c], 422}] :
            c \in ApplicationErrors }
  \cup [class : OtherErrors, message : {"failed", ""}, statusCode : {0}]

\* res.status(code).json(body)
Json(code, body) == [status |-> code, body |-> body]

\* errorHandler(err, req, res, next): the responses it sends, in order
ErrorHandler(err) ==
  IF err.class \notin ApplicationErrors
  THEN << Json(500, [type |-> "UNCAUGHT_ERROR", success |-> FALSE,
                     message |-> err.message]) >>
  ELSE CASE err.class = "ValidationError" ->
              << Json(err.statusCode, [type |-> "VALIDATION_ERROR", success |-> FALSE,
                                       message |-> err.message]) >>
         [] err.class = "AuthenticationError" ->
              << Json(err.statusCode, [type |-> "AUTHENTICATION_ERROR",
                                       success |-> FALSE, message |-> err.message]) >>
         [] err.class = "AuthorizationError" ->
              << Json(err.statusCode, [type |-> "AUTHORIZATION_ERROR",
                                       success |-> FALSE, message |-> err.message]) >>
         [] err.class = "NotFoundError" ->
              << Json(err.statusCode, [type |-> "NOTFOUND_ERROR", success |-> FALSE,
                                       message |-> err.message]) >>
         [] err.class = "ForbiddenError" ->
              << Json(err.statusCode, [type |-> "FORBIDDEN_ERROR", success |-> FALSE,
                                       message |-> err.message]) >>
         [] err.class = "RateLimitError" ->
              << Json(err.statusCode, [types |-> "RATELIMIT_ERROR", success |-> FALSE,
                                       message |-> err.message]) >>
         [] err.class = "InternalServerError" ->
              << Json(err.statusCode, [type |-> "INTERNAL_SERVER_ERROR",
                                       success |-> FALSE, message |-> err.message]) >>
         [] OTHER -> << >>

\* what the Express stack leaves alone
nonHttpVars ==
  <<records, jobs, workers, settled, faults, wallets, users, provisioned, aliases,
    serviceCalls, toolResult, calls, aliasOps, accounts, toolRegistry, thrown,
    requests, saving, signing>>

\* a route calls next(err) and Express runs the error handler
HandleError(err) ==
  /\ Len(handled) < MaxHandled
  /\ handled' = Append(handled, [kind |-> "error", error |-> err,
                                 sent |-> ErrorHandler(err)])
  /\ UNCHANGED <<server, nonHttpVars>>

NextErrors == \E err \in Errors : HandleError(err)

SpecErrors == Init /\ [][NextErrors]_vars

(***************************************************************************)
(* The entry point: new AppServer(), bootstrapDependencies() and start(),  *)
(* and the requests that Express serves once the server listens.           *)
(***************************************************************************)
\* the routes that registerApplicationTestRoutes installs
Routes == {"/chat", "/metrics/queues", "/health"}

\* the paths of the requests the model sends
Paths == Routes \cup {"/nonexistent"}

\* the entry point runs without a pause: new AppServer(), then
\* bootstrapDependencies() up to its first await (logger, configuration,
\* database client, connect() started), whose promise is not awaited, then
\* start().  configOk = FALSE: AppConfigs throws inside bootstrapDependencies,
\* which rejects its promise; start() then reads this.config, throws, and the
\* catch block of the entry point ends the process
Main(configOk) ==
  /\ server.pc = "new"
  /\ server' = IF configOk
                THEN [server EXCEPT !.pc = "connecting", !.logger = TRUE,
                                    !.config = TRUE, !.db = "connecting",
                                    !.listening = TRUE]
                ELSE [server EXCEPT !.pc = "exited", !.logger = TRUE]
  /\ UNCHANGED <<handled, nonHttpVars>>

\* dataSource.initialize() settles and bootstrapDependencies runs to its end:
\* the BullMQ client, the three workers, the tools, the routes and the error
\* handler.  ok = FALSE: the connection fails and the promise of
\* bootstrapDependencies is rejected with nobody waiting for it; up = FALSE:
\* the runtime ends the process on the unhandled rejection
Connected(ok, up) ==
  /\ server.pc = "connecting"
  /\ ok => up
  /\ server' = IF ok
                THEN [server EXCEPT !.pc = "done", !.db = "connected",
                                    !.workers = Queues, !.routes = Routes,
                                    !.errorHandler = TRUE]
                ELSE [server EXCEPT !.pc = IF up THEN "rejected" ELSE "exited",
                                    !.db = "failed",
                                    !.listening = server.listening /\ up]
  /\ UNCHANGED <<handled, nonHttpVars>>

\* a request arrives at the listening server: the stack installed so far is
\* run; a path without a route is answered 404 by Express.  status is the
\* status code the route answers with
Serve(path, status) ==
  /\ server.listening
  /\ Len(handled) < MaxHandled
  /\ status = (IF path \in server.routes THEN status ELSE 404)
  /\ path # "/chat" => status \in {200, 404}
  /\ handled' = Append(handled,
       [kind |-> "request", path |-> path, phase |-> server.pc,
        sent |-> << Json(status, [routed |-> path \in server.routes]) >>])
  /\ UNCHANGED <<server, nonHttpVars>>

NextBoot ==
  \/ \E configOk \in BOOLEAN : Main(configOk)
  \/ \E ok, up \in BOOLEAN : Connected(ok, up)
  \/ \E path \in Paths, status \in {200, 400, 404, 500} : Serve(path, status)

SpecBoot == Init /\ [][NextBoot]_vars

(***************************************************************************)
(* Properties of the settlement pipeline.                                  *)
(***************************************************************************)
\* the worker of instance i on queue q takes a step
Steps(i, q) == workers'[i][q] # workers[i][q]

\* the row a busy worker's job refers to
RecOf(i, q) == jobs[workers[i][q].job].data.rec

\* the job whose settlement produced hash h
JobOfHash(h) == ((h - 1) \div Attempts) + 1

\* C1: once the status of a Transaction / Swap record has left 'pending' it
\* never returns to 'pending', a confirmed record never becomes failed and a
\* failed record never becomes confirmed.
MonotoneStatus ==
  [][\A q \in SettleQueues, r \in RecordIds :
       LET s == records[q][r].status
           t == records'[q][r].status
       IN /\ (s # "pending" => t # "pending")
          /\ (s = "confirmed" => t # "failed")
          /\ (s = "failed" => t # "confirmed")]_vars

\* C2: the settlement step is performed at most once for every record, over
\* all deliveries of the jobs that reference it.
SettledAtMostOnce ==
  \A q \in SettleQueues, r \in RecordIds : settled[q][r] <= 1

SettlementFailureFailsJob ==
  [][\A i \in Instances, q \in SettleQueues :
       (/\ workers[i][q].pc = "catch"
        /\ workers[i][q].error = "settlement failed"
        /\ Steps(i, q)
        /\ faults' = faults)
       => /\ records'[q][RecOf(i, q)].status = "failed"
          /\ jobs'[workers[i][q].job].state = "failed"]_vars

\* C7: a job whose record is already 'failed' is not settled, the status
\* stays 'failed', the result says so, and the job is failed in the queue
\* without a retry (stated for the case that storage works).
AlreadyFailedFailsJob ==
  [][\A i \in Instances, q \in SettleQueues :
       (/\ workers[i][q].pc = "catch"
        /\ workers[i][q].error = "already marked as failed"
        /\ Steps(i, q)
        /\ faults' = faults)
       => /\ settled' = settled
          /\ records'[q][RecOf(i, q)].status = "failed"
          /\ jobs'[workers[i][q].job].state = "failed"]_vars

\* C8: a write to a Transaction / Swap record takes effect only if the status
\* is 'pending' at the moment of the write; otherwise neither the status nor
\* the txHash changes.
WriteOnlyWhenPending ==
  [][\A q \in SettleQueues, r \in RecordIds :
       records[q][r].status # "pending" => records'[q][r] = records[q][r]]_vars

(***************************************************************************)
(* Properties of wallet provisioning.                                      *)
(***************************************************************************)
\* C3: for every (user, chain) at most one Wallet record has isPrimary = true,
\* after any sequence of (possibly concurrent) WalletWorker.process calls.
PrimaryWalletUnique ==
  \A u \in UserIds, c \in Chains : Cardinality(PrimaryWallets(u, c)) <= 1

\* C5: a process() call that finds a primary wallet for (user, chain) returns
\* success with that wallet's id and address and txHash 'already_exists',
\* does not call provisionOnChain and creates no Wallet record.
ExistingWalletIsReturned ==
  [][\A i \in Instances :
       LET w == workers[i][WalletQueue] IN
       (/\ w.pc = "findPrimaryWallet"
        /\ workers'[i][WalletQueue] # w
        /\ PrimaryWallets(jobs[w.job].data.userId, jobs[w.job].data.chain) # {})
       => LET d == jobs[w.job].data
              r == jobs'[w.job].returnvalue
          IN /\ workers'[i][WalletQueue].pc = "idle"
             /\ jobs'[w.job].state = "completed"
             /\ r.success
             /\ r.walletId \in PrimaryWallets(d.userId, d.chain)
             /\ r.address = wallets[r.walletId].smartAccountAddress
             /\ r.txHash = "already_exists"
             /\ provisioned' = provisioned
             /\ wallets' = wallets
             /\ Len(wallets') = Len(wallets)]_vars

\* a redelivered provisioning job was answered from the existing wallet
ExistingWalletIsReturnedWitness ==
  \E j \in DOMAIN jobs :
    /\ jobs[j].queue = WalletQueue
    /\ jobs[j].state = "completed"
    /\ jobs[j].returnvalue.success
    /\ jobs[j].returnvalue.txHash = "already_exists"
    /\ provisioned[jobs[j].data.userId][jobs[j].data.chain] = 1

(***************************************************************************)
(* Properties of the transfer and swap tools.                              *)
(***************************************************************************)
\* a tool handler is called and returns in this step
ToolReturns == calls' = calls + 1

\* the queue on which a tool's job belongs
QueueOfTool(tool) == IF tool = "swap" THEN SwapQueue ELSE TransactionQueue

\* C9: a transfer or swap that passes the handler's checks creates exactly one
\* new record with status 'pending' and enqueues exactly one job on the
\* matching queue whose payload references that record.
SuccessCreatesRecordAndJob ==
  [][(ToolReturns /\ toolResult'.success)
     => LET q == QueueOfTool(toolResult'.tool) IN
        \E id \in JobRecordIds \ DOMAIN records[q] :
          /\ DOMAIN records'[q] = DOMAIN records[q] \cup {id}
          /\ records'[q][id].status = "pending"
          /\ \A r \in DOMAIN records[q] : records'[q][r] = records[q][r]
          /\ Len(jobs') = Len(jobs) + 1
          /\ jobs'[Len(jobs')].queue = q
          /\ jobs'[Len(jobs')].state = "waiting"
          /\ jobs'[Len(jobs')].data.rec = id]_vars

\* C10: whenever a transfer or swap handler returns a failure, the records
\* and the queued jobs are the same as before the call.
FailureLeavesNothing ==
  [][(ToolReturns /\ ~toolResult'.success)
     => /\ records' = records
        /\ jobs' = jobs]_vars

\* every handler call so far was rejected, the last one a same-asset swap
FailureLeavesNothingWitness ==
  /\ calls = MaxCalls
  /\ ~toolResult.success
  /\ toolResult.tool = "swap"
  /\ toolResult.message = "Cannot swap the same asset"
  /\ serviceCalls = <<>>
  /\ jobs = <<>>

\* C11: a transfer to an '@' recipient that reaches the alias lookup fails
\* with an 'alias not found' message and hands nothing to the transfer service
\* or a queue when the alias does not resolve for the acting user; when it
\* resolves, the recipient handed on and returned in data.to is the resolved
\* address and never the alias text.
AliasGate ==
  [][\A input \in TransferInputs, userId \in UserIds :
       (/\ StartsWith(input.to, "@")
        /\ ~NotPositive(ParseFloat(input.amount))
        /\ TransferTool(input, userId, TRUE))
       => IF ResolveAlias(userId, input.to) = {}
          THEN /\ ~toolResult'.success
               /\ toolResult'.message = "Alias not found"
               /\ serviceCalls' = serviceCalls
               /\ jobs' = jobs
          ELSE /\ toolResult'.success
               /\ toolResult'.data.to \in ResolveAlias(userId, input.to)
               /\ toolResult'.data.to # input.to
               /\ ~StartsWith(toolResult'.data.to, "@")
               /\ Len(serviceCalls') = Len(serviceCalls) + 1
               /\ serviceCalls'[Len(serviceCalls')].payload.to = toolResult'.data.to]_vars

\* a transfer went through to an address that only an alias row holds
AliasGateWitness ==
  /\ toolResult.tool = "transfer"
  /\ toolResult.success
  /\ toolResult.data.to = Address2
  /\ serviceCalls # <<>>
  /\ serviceCalls[Len(serviceCalls)].payload.to = Address2

\* C12: a swap whose fromAsset equals its toAsset is answered with a failure;
\* no record or job is created and the swap service is not called.
SameAssetRejected ==
  [][\A input \in SwapInputs, userId \in UserIds \cup {NoUser} :
       (input.fromAsset = input.toAsset /\ SwapTool(input, userId))
       => /\ ~toolResult'.success
          /\ toolResult'.tool = "swap"
          /\ serviceCalls' = serviceCalls
          /\ records' = records
          /\ jobs' = jobs]_vars

\* a swap of an asset for itself by an authenticated user was rejected
SameAssetRejectedWitness ==
  /\ toolResult.tool = "swap"
  /\ toolResult.message = "Cannot swap the same asset"
  /\ ~toolResult.success
  /\ calls > 0

\* validateAmount: the amounts that are written as a positive decimal number
ValidateAmount(amount) ==
  LET cleaned == Trim(amount)
      n1 == DigitPrefixLen(cleaned)
      rest == SubSeq(cleaned, n1 + 1, Len(cleaned))
      n2 == IF Len(rest) > 0 /\ rest[1] = "." THEN DigitPrefixLen(Tail(rest)) ELSE 0
      matches == /\ n1 > 0
                 /\ \/ rest = <<>>
                    \/ (rest[1] = "." /\ n2 > 0 /\ Len(rest) = n2 + 1)
  IN matches /\ ~NotPositive(ParseFloat(cleaned))

\* C13: a transfer or swap whose amount string is not a positive decimal
\* number is rejected before the service is called and before any record or
\* job is created.
AmountPositivity ==
  [][/\ \A input \in TransferInputs, userId \in UserIds \cup {NoUser} :
          (~ValidateAmount(input.amount) /\ TransferTool(input, userId, TRUE))
          => (~toolResult'.success /\ serviceCalls' = serviceCalls
              /\ records' = records /\ jobs' = jobs)
     /\ \A input \in SwapInputs, userId \in UserIds \cup {NoUser} :
          (~ValidateAmount(input.amount) /\ SwapTool(input, userId))
          => (~toolResult'.success /\ serviceCalls' = serviceCalls
              /\ records' = records /\ jobs' = jobs)]_vars

(***************************************************************************)
(* Properties of the orchestrator, the chat route and the handlers.        *)
(***************************************************************************)
EightKinds ==
  {"signup", "signin", "create_alias", "resolve_alias", "transfer", "swap",
   "balance_check", "portfolio"}

\* C14: create_alias or resolve_alias dispatched without an actor id fails;
\* the alias storage is neither read nor written and the alias records stay
\* as they are.
NoActorAliasUntouched ==
  [][/\ \A input \in CreateAliasInputs :
          MapTool("create_alias", input, NoUser)
          => (~toolResult'.success /\ toolResult'.tool = "create_alias"
              /\ aliasOps' = aliasOps /\ aliases' = aliases)
     /\ \A input \in ResolveAliasInputs :
          MapTool("resolve_alias", input, NoUser)
          => (~toolResult'.success /\ toolResult'.tool = "resolve_alias"
              /\ aliasOps' = aliasOps /\ aliases' = aliases)]_vars

\* create_alias without an actor was refused while an alias row existed
NoActorAliasUntouchedWitness ==
  /\ toolResult.tool = "create_alias"
  /\ toolResult.message = "User must be authenticated to create alias"
  /\ aliases # {}
  /\ aliasOps = 0

\* C15: in the chat route a handler runs only for an answer that passed
\* baseSchema; an answer that fails validation runs no handler, writes
\* nothing and enqueues no job.
ChatValidatesFirst ==
  [][\A query \in {<<>>, <<"q">>}, response \in LLMResponses, ok \in BOOLEAN,
        userId \in UserIds \cup {NoUser} :
       (/\ ChatRoute(query, response, ok, userId)
        /\ (response.content # "json" \/ ~BaseSchema(response.json)))
       => /\ calls' = calls
          /\ thrown' # "none"
          /\ toolResult' = toolResult
          /\ serviceCalls' = serviceCalls
          /\ aliases' = aliases
          /\ accounts' = accounts
          /\ users' = users
          /\ records' = records
          /\ jobs' = jobs]_vars

\* a chat request ended in the validation error and nothing else happened
ChatValidatesFirstWitness ==
  /\ thrown = "ZodError"
  /\ requests > 0
  /\ calls = 0
  /\ jobs = <<>>
  /\ toolResult = NoToolResult

\* C16: mapTool called with an action kind that is not registered raises an
\* error, runs no handler and returns no result.
UnknownActionFails ==
  [][\A action \in UnknownActions, userId \in UserIds \cup {NoUser} :
       MapTool(action, NoData, userId)
       => /\ thrown' # "none"
          /\ calls' = calls
          /\ toolResult' = toolResult
          /\ serviceCalls' = serviceCalls
          /\ aliases' = aliases
          /\ accounts' = accounts
          /\ jobs' = jobs]_vars

\* mapTool was called with an unregistered kind and no handler has run
UnknownActionFailsWitness ==
  /\ thrown = "Unknown tool action"
  /\ calls = 0
  /\ requests > 0

\* C17: getAvailableTools is exactly the eight kinds, mapTool routes each kind
\* to the handler of the same name, and no call changes the table.
RegistryIsStatic ==
  /\ [](/\ GetAvailableTools = EightKinds
        /\ \A a \in GetAvailableTools : ToolName(toolRegistry[a]) = a)
  /\ [][/\ toolRegistry' = toolRegistry
        /\ \A a \in EightKinds, userId \in UserIds \cup {NoUser} :
             \A input \in ChatInputsOf(a) :
               (MapTool(a, input, userId) /\ calls' = calls + 1)
               => toolResult'.tool = a]_vars

\* every request so far was routed to a handler, the last one to portfolio
RegistryIsStaticWitness ==
  /\ requests = MaxCalls
  /\ calls = requests
  /\ toolResult.tool = "portfolio"
  /\ toolResult.success
  /\ GetAvailableTools = EightKinds

\* C18: whenever one of the eight handlers runs, the call returns a result
\* with a boolean success and a string message and raises nothing; a storage
\* or queue error inside the handler comes back as success = false.
DispatchAlwaysResolves ==
  [][calls' = calls + 1
     => /\ thrown' = "none"
        /\ toolResult'.tool \in EightKinds
        /\ toolResult'.success \in BOOLEAN
        /\ toolResult'.message \in STRING
        /\ toolResult'.message # "none"
        /\ faults' # faults => ~toolResult'.success]_vars

\* a handler ran into a storage or queue error and returned a failure
DispatchAlwaysResolvesWitness ==
  /\ faults > 0
  /\ thrown = "none"
  /\ ~toolResult.success
  /\ toolResult.message \in {"storage error", "queue error"}

(***************************************************************************)
(* Properties of the queues.                                               *)
(***************************************************************************)
\* the metrics name of the queue a job is in
NameOfQueue(queue) ==
  CHOOSE name \in DOMAIN QueueMap : QueueMap[name] = queue

QueueIsolation ==
  /\ \A i \in Instances, q \in Queues :
       workers[i][q].job # NoJob => jobs[workers[i][q].job].queue = q
  /\ \A i \in Instances, j \in DOMAIN jobs :
       (jobs[j].state = "waiting" /\ workers[i][jobs[j].queue].pc = "idle")
       => IF jobs[j].queue = WalletQueue
          THEN ENABLED WalletProcessStart(i, j)
          ELSE ENABLED ProcessStart(i, jobs[j].queue, j)

\* while the worker of one queue is in the middle of a job, the worker of
\* another queue in the same process has claimed a job too
QueueIsolationWitness ==
  \E i \in Instances, q1, q2 \in Queues :
    /\ q1 # q2
    /\ workers[i][q1].pc \notin {"idle", "findOne", "findPrimaryWallet"}
    /\ workers[i][q2].pc # "idle"
    /\ workers[i][q2].job > workers[i][q1].job

\* the jobs of a sequence that are on the given queue in the given state
RECURSIVE CountJobs(_, _, _)
CountJobs(js, queue, state) ==
  IF js = <<>> THEN 0
  ELSE (IF js[1].queue = queue /\ js[1].state = state THEN 1 ELSE 0)
       + CountJobs(Tail(js), queue, state)

\* C21: getQueueMetrics for wallet, transaction, swap and notification
\* returns the five counts waiting, active, completed, failed and delayed,
\* each a non-negative number equal to the number of that queue's jobs in that
\* state; an unknown queue name is an error.
MetricsCountJobs ==
  /\ \A name \in {"wallet", "transaction", "swap", "notification"} :
       LET m == GetQueueMetrics(name)
           queue == ("wallet" :> "wallet-provisioning"
                     @@ "transaction" :> "transaction-processing"
                     @@ "swap" :> "swap-processing"
                     @@ "notification" :> "notifications")[name]
       IN /\ DOMAIN m = {"waiting", "active", "completed", "failed", "delayed"}
          /\ \A state \in DOMAIN m :
               /\ m[state] \in Nat
               /\ m[state] = CountJobs(jobs, queue, state)
          /\ m.waiting + m.active + m.completed + m.failed + m.delayed
               = Cardinality({ j \in DOMAIN jobs : jobs[j].queue = queue })
  /\ \A name \in UnknownQueueNames :
       /\ DOMAIN GetQueueMetrics(name) = {"error"}
       /\ GetQueueMetrics(name).error # "none"

\* one queue reports a failed job while another reports a completed one
MetricsCountJobsWitness ==
  /\ GetQueueMetrics("transaction").failed = 1
  /\ GetQueueMetrics("transaction").completed = 0
  /\ GetQueueMetrics("wallet").completed = 1
  /\ GetQueueMetrics("swap") = GetQueueMetrics("notification")

(***************************************************************************)
(* Properties of the alias service.                                        *)
(***************************************************************************)
\* C22: after any sequence of saveAlias and deleteAlias calls, two saveAlias
\* calls for the same user and label running at the same time included, each
\* user has at most one alias record per lower-cased label, while two users
\* may each hold a record with the same label.
AliasUniquePerUser ==
  \A a, b \in aliases :
    (a.ownerId = b.ownerId /\ ToLowerCase(a.alias) = ToLowerCase(b.alias)) => a = b

\* C23: after create_alias succeeds for a user with label L and address A,
\* resolve_alias (and the alias lookup of the transfer handler) for the same
\* user and the same label L returns A, whether or not L is written with a
\* leading '@' and in any letter case; saving L again with another address
\* makes it resolve to that address without adding a second record.
CreateThenResolve ==
  [][\A input \in CreateAliasInputs, userId \in UserIds :
       (CreateAliasTool(input, userId, NoError) /\ toolResult'.success)
       => /\ ResolveAlias(userId, input.alias)' = {input.address}
          /\ Cardinality(ExistingAliases(userId, input.alias)') = 1
          /\ ExistingAliases(userId, input.alias) # {}
               => Cardinality(aliases') = Cardinality(aliases)]_vars

\* C24: whenever WalletWorker.process has returned success for (user, chain),
\* a primary Wallet record exists for the pair and the user's cached
\* primaryWalletAddress is the address of a wallet of that user, also when an
\* earlier attempt created the wallet record, failed before the user update
\* and the job was delivered again.
SuccessMeansWalletAndCache ==
  \A j \in DOMAIN jobs :
    (/\ jobs[j].queue = WalletQueue
     /\ jobs[j].state = "completed"
     /\ jobs[j].returnvalue.success)
    => LET u == jobs[j].data.userId
           c == jobs[j].data.chain
       IN /\ PrimaryWallets(u, c) # {}
          /\ users[u] # NoAddress
          /\ \E k \in FindUserWallets(u) : wallets[k].smartAccountAddress = users[u]

(***************************************************************************)
(* Properties of the Express stack and the entry point.                    *)
(***************************************************************************)
\* C25: for every error passed to the Express error handler (each
\* ApplicationError subclass, a plain ApplicationError and any other Error)
\* exactly one response is sent, and its body has success = false, a 'type'
\* field and a message.
OneTypedErrorResponse ==
  \A k \in DOMAIN handled :
    handled[k].kind = "error"
    => /\ Len(handled[k].sent) = 1
       /\ {"success", "type", "message"} \subseteq DOMAIN handled[k].sent[1].body
       /\ handled[k].sent[1].body.success = FALSE
       /\ handled[k].sent[1].body.message = handled[k].error.message

\* C26: the HTTP server listens only after bootstrapDependencies has
\* finished: the configuration is loaded, the database is connected, the three
\* workers are registered and the /chat, /metrics/queues and /health routes
\* and the error handler are installed before start() runs and before the
\* first request is served.
ListenAfterBootstrap ==
  /\ server.listening
       => /\ server.pc = "done"
          /\ server.config
          /\ server.db = "connected"
          /\ server.workers = {WalletQueue, TransactionQueue, SwapQueue}
          /\ server.routes = {"/chat", "/metrics/queues", "/health"}
          /\ server.errorHandler
  /\ \A k \in DOMAIN handled :
       handled[k].kind = "request" => handled[k].phase = "done"

(***************************************************************************)
(* Properties of signup and signin.                                        *)
(***************************************************************************)
\* C27: a sign-in with a non-empty email and password that fails for an email
\* that is registered (wrong password, or an account without a password)
\* fails with the same error as one for an email that no user has, which is
\* 'Invalid email or password'.
SigninFailuresAlike ==
  [][\A input \in SigninInputs, userId \in UserIds \cup {NoUser} :
       (/\ CredentialError("signin", input) = "none"
        /\ SigninTool(input, userId, NoError)
        /\ ~toolResult'.success)
       => /\ AccountsOf(input.email) = {}
               => toolResult'.message = "Invalid email or password"
          /\ AccountsOf(input.email) # {}
               => toolResult'.message = "Invalid email or password"]_vars

(***************************************************************************)
(* Properties of the workers.                                              *)
(***************************************************************************)
\* C28: at every moment each registered worker (wallet, transaction, swap)
\* is processing at most one job: every active job is held by exactly one
\* worker of its queue, and a worker claims a job only when the process call
\* for its previous job has returned or thrown.
OneJobPerWorker ==
  /\ [](\A q \in Queues :
          /\ JobCount(q, "active") <= Cardinality(Instances)
          /\ \A j \in DOMAIN jobs :
               (jobs[j].queue = q /\ jobs[j].state = "active")
               => Cardinality({ i \in Instances :
                                  workers[i][q].pc # "idle" /\ workers[i][q].job = j }) = 1
          /\ \A i \in Instances :
               workers[i][q].pc # "idle"
               => /\ jobs[workers[i][q].job].state = "active"
                  /\ jobs[workers[i][q].job].queue = q)
  /\ [][\A j \in DOMAIN jobs :
          (jobs[j].state # "active" /\ jobs'[j].state = "active")
          => \E i \in Instances :
               /\ workers[i][jobs[j].queue].pc = "idle"
               /\ workers'[i][jobs[j].queue].job = j]_vars

\* a worker is in the middle of a job while a job of its queue that was
\* attempted before waits for a free worker
OneJobPerWorkerWitness ==
  \E q \in Queues, j \in DOMAIN jobs :
    /\ jobs[j].queue = q
    /\ jobs[j].state = "waiting"
    /\ jobs[j].attemptsMade > 0
    /\ \E i \in Instances :
         /\ workers[i][q].pc \notin {"idle", "findOne", "findPrimaryWallet"}
         /\ workers[i][q].job # j

\* C29: a successful email signup enqueues exactly one job on the
\* wallet-provisioning queue, carrying the id of the new user and the
\* requested chain (Base when none is given), and returns while the job is
\* still waiting; a signup that fails enqueues no job.
SignupEnqueuesOneJob ==
  [][\A input \in SignupInputs, userId \in UserIds \cup {NoUser},
        err \in {NoError, "findOne", "save", "add"} :
       SignupTool(input, userId, err)
       => IF toolResult'.success
          THEN /\ Len(jobs') = Len(jobs) + 1
               /\ SubSeq(jobs', 1, Len(jobs)) = jobs
               /\ jobs'[Len(jobs')].queue = "wallet-provisioning"
               /\ jobs'[Len(jobs')].state = "waiting"
               /\ jobs'[Len(jobs')].data.userId = toolResult'.data.userId
               /\ jobs'[Len(jobs')].data.userId \notin DOMAIN users
               /\ \E a \in accounts' \ accounts :
                    /\ a.id = jobs'[Len(jobs')].data.userId
                    /\ a.email = input.email
               /\ jobs'[Len(jobs')].data.chain =
                    (IF input.chain \in Chains THEN input.chain ELSE "Base")
               /\ workers' = workers
               /\ wallets' = wallets
          ELSE jobs' = jobs]_vars

\* a signup succeeded and its wallet job is waiting on the queue
SignupEnqueuesOneJobWitness ==
  /\ toolResult.tool = "signup"
  /\ toolResult.success
  /\ Len(jobs) = 1
  /\ jobs[1].queue = WalletQueue
  /\ jobs[1].state = "waiting"
  /\ jobs[1].data.userId = toolResult.data.userId
  /\ toolResult.data.walletJobId = 1

\* C30: no alias record ever has a reserved or malformed label: a saveAlias
\* call whose label, without an optional leading '@', is a reserved word in
\* any letter case, is shorter than 3 or longer than 20 characters, or does
\* not start with a letter or digit, throws and creates or changes no record.
NoRefusedLabelStored ==
  /\ [](\A a \in aliases : ValidateAliasFormat(a.alias) = "none")
  /\ \A data \in RefusedInputs : ValidateAliasFormat(data.alias) # "none"
  /\ [][\A i \in Instances, data \in RefusedInputs, ok \in BOOLEAN :
          SaveAliasFindOne(i, data, ok)
          => /\ thrown' \notin {"none", "storage error"}
             /\ aliases' = aliases
             /\ saving' = saving
             /\ aliasOps' = aliasOps]_vars

\* a call with a reserved label has been refused while a record exists
NoRefusedLabelStoredWitness ==
  /\ thrown = "This alias is reserved and cannot be used"
  /\ aliases # {}
  /\ \A i \in Instances : saving[i] = IdleSave

BadJobLeavesRecords ==
  [][\A i \in Instances, q \in SettleQueues :
       (/\ workers[i][q].pc # "idle"
        /\ workers'[i][q] # workers[i][q]
        /\ \/ ~SchemaParse(jobs[workers[i][q].job].data)
           \/ jobs[workers[i][q].job].data.rec \notin RecordIds)
       => /\ settled' = settled
          /\ records' = records
          /\ jobs'[workers[i][q].job].state = "completed"
               => ~jobs'[workers[i][q].job].returnvalue.success]_vars

\* C33: when the provisioning step of a wallet-provisioning job fails on an
\* attempt and (user, chain) has no primary wallet yet, the attempt does not
\* end the job as completed: the queue attempts the job again, up to the
\* ceiling of 3 attempts.
FailedProvisionRetried ==
  [][\A i \in Instances :
       (/\ ProvisionOnChain(i, FALSE)
        /\ PrimaryWallets(jobs[workers[i][WalletQueue].job].data.userId,
                          jobs[workers[i][WalletQueue].job].data.chain) = {})
       => /\ jobs'[workers[i][WalletQueue].job].state # "completed"
          /\ jobs'[workers[i][WalletQueue].job].attemptsMade =
               jobs[workers[i][WalletQueue].job].attemptsMade + 1
          /\ jobs'[workers[i][WalletQueue].job].state =
               (IF jobs'[workers[i][WalletQueue].job].attemptsMade < Attempts
                THEN "delayed" ELSE "failed")]_vars

\* C34: after any interleaving of concurrent email signups with the same
\* address, each of which may pass the 'user already exists' check before any
\* of them saves, at most one user record has that email and at most one
\* wallet-provisioning job was enqueued for it; every other signup fails.
OneAccountPerEmail ==
  /\ [](\A e \in {Email1, Email2} :
         /\ Cardinality(AccountsOf(e)) <= 1
         /\ Cardinality({ j \in DOMAIN jobs :
                            \E a \in AccountsOf(e) : jobs[j].data.userId = a.id }) <= 1)
  /\ [](\A j \in DOMAIN jobs : \E a \in accounts : jobs[j].data.userId = a.id)
  /\ [][\A i \in Instances :
          (SignupSave(i, TRUE) /\ AccountsOf(signing[i].input.email) # {})
          => /\ ~toolResult'.success
             /\ accounts' = accounts
             /\ jobs' = jobs
             /\ signing'[i] = IdleSignup]_vars

\* two signups with one email both passed the check; one of them has its
\* account and its job, the other was refused by the save
OneAccountPerEmailWitness ==
  /\ calls = 2
  /\ Cardinality(AccountsOf(Email1)) = 1
  /\ AccountsOf(Email2) = {}
  /\ Len(jobs) = 1
  /\ \A i \in Instances : signing[i] = IdleSignup
  /\ toolResult.message = "duplicate key value violates unique constraint"

\* C35: when the signup handler returns success = false, no user account
\* has been persisted by that call; in particular, when the account was
\* created and the enqueuing of the wallet-provisioning job then fails, the
\* user record does not remain and the email can sign up again.
FailedSignupKeepsNoAccount ==
  [][\A i \in Instances :
       (/\ signing[i].pc # "idle"
        /\ signing'[i] = IdleSignup
        /\ ~toolResult'.success)
       => /\ signing[i].pc = "add"
               => /\ \A a \in accounts' : a.id # signing[i].userId
                  /\ AccountsOf(signing[i].input.email)' = {}
          /\ signing[i].pc = "save" => accounts' = accounts]_vars

\* C36: setPrimaryWallet(walletId, userId) changes the isPrimary flag only
\* of wallets owned by userId on the chain of walletId: primary wallets of the
\* user on other chains and all wallets of other users keep their flag, and
\* afterwards each (user, chain) still has at most one primary wallet.
SetPrimaryTouchesOneChain ==
  [][\A walletId \in 1..4, userId \in WalletOwners :
       SetPrimaryWallet(walletId, userId, NoError)
       => /\ \A k \in DOMAIN wallets :
               (\/ wallets[k].owner # userId
                \/ /\ walletId \in DOMAIN wallets
                   /\ wallets[k].chain # wallets[walletId].chain)
               => wallets'[k].isPrimary = wallets[k].isPrimary
          /\ \A k, l \in DOMAIN wallets' :
               (/\ wallets'[k].isPrimary /\ wallets'[l].isPrimary
                /\ wallets'[k].owner = wallets'[l].owner
                /\ wallets'[k].chain = wallets'[l].chain) => k = l]_vars

\* a string that is a decimal literal greater than zero
IsPositiveNumber(str) ==
  /\ \A k \in DOMAIN str : IsDigit(str[k]) \/ str[k] = "."
  /\ Cardinality({ k \in DOMAIN str : str[k] = "." }) <= 1
  /\ \E k \in DOMAIN str : IsDigit(str[k]) /\ str[k] # "0"

\* C37: when SwapWorker.process runs for a 'pending' swap whose job carries
\* an amountIn or amountOutExpected that is not a positive number, the
\* settlement step is not performed, the swap's status becomes 'failed' and
\* the result is a failure with status 'failed'.
InvalidAmountsFailSwap ==
  /\ [][\A i \in Instances :
          (/\ FindOne(i, SwapQueue)
           /\ jobs[workers[i][SwapQueue].job].data.rec \in RecordIds
           /\ records[SwapQueue][jobs[workers[i][SwapQueue].job].data.rec].status
                = "pending"
           /\ \/ ~IsPositiveNumber(jobs[workers[i][SwapQueue].job].data.amounts.amountIn)
              \/ ~IsPositiveNumber(
                    jobs[workers[i][SwapQueue].job].data.amounts.amountOutExpected))
          => /\ workers'[i][SwapQueue].pc = "catch"
             /\ workers'[i][SwapQueue].error = "Invalid swap amounts"
             /\ settled' = settled]_vars
  /\ [][\A i \in Instances :
          (/\ Catch(i, SwapQueue, TRUE)
           /\ workers[i][SwapQueue].error = "Invalid swap amounts")
          => /\ records'[SwapQueue][jobs[workers[i][SwapQueue].job].data.rec].status
                  = "failed"
             /\ jobs'[workers[i][SwapQueue].job].returnvalue =
                  [success |-> FALSE, status |-> "failed", txHash |-> NoHash,
                   error |-> "Invalid swap amounts"]
             /\ settled' = settled]_vars

\* C38: alias resolution is isolated per user: what a label resolves to for
\* a user B changes only through a saveAlias or deleteAlias of B, never
\* through one of another user, and an address is resolved for B only when a
\* saveAlias of B stored it under that label.
AliasIsolation ==
  [][\A b \in AliasOwners, l \in LookupLabels :
       ResolveAlias(b, l)' # ResolveAlias(b, l)
       => /\ \/ \E i \in Instances : /\ saving[i].pc = "save"
                                      /\ saving[i].data.userId = b
                                      /\ saving'[i] = IdleSave
             \/ \E alias \in LookupLabels : DeleteAlias(b, alias, TRUE)
          /\ \A address \in ResolveAlias(b, l)' \ ResolveAlias(b, l) :
               \E i \in Instances :
                 /\ saving[i].pc = "save"
                 /\ saving[i].data.userId = b
                 /\ saving[i].data.address = address
                 /\ saving'[i] = IdleSave
                 /\ ToLowerCase(saving[i].data.alias) = CleanAlias(l)]_vars

\* two users each hold the label bob, with different addresses, and each
\* resolves it to their own
AliasIsolationWitness ==
  /\ ResolveAlias(1, <<"@", "b", "o", "b">>) = {Address1}
  /\ ResolveAlias(2, <<"@", "b", "o", "b">>) = {Address2}

====
